---------------------------- MODULE Spec2Model ----------------------------
(***************************************************************************)
(* A model of the brute-force wallet recovery of this repository:          *)
(*   src/src/validator.py         MnemonicHandler                          *)
(*   src/src/wallet.py            WalletDeriver                            *)
(*   src/src/recovery.py          WalletRecovery   (direct mode)           *)
(*   src/src/trial3_generator.py  generate_trial3_word_sets                *)
(*   src/trial3.py                Trial3Recovery   (blank-substitution)    *)
(*                                                                         *)
(* Text is modelled as what Python computes on it.  A str is a sequence of *)
(* one-character strings, so that lower(), strip(), join() and split() are *)
(* computed and not assumed.                                               *)
(*                                                                         *)
(* Scaling.  The code permutes 9 words (9! = 362,880 candidates) and reads *)
(* a pool of 30.  The model keeps the code's structure and scales these    *)
(* two numbers to the bounds PermutableCount and PoolCount.               *)
(* Numbers the code derives from them keep their offset: construct_        *)
(* mnemonic's 10 is 9 + 1, the generator's 8 is 9 - 1, and the 24 words of *)
(* a mnemonic are 9 + 15 = 10 + 14.  The fixed-word counts 15 and 14 are   *)
(* the code's own.                                                         *)
(***************************************************************************)
EXTENDS Integers, Sequences, FiniteSets, TLC

(***************************************************************************)
(* Bounds of the model.                                                    *)
(***************************************************************************)
\* stands for the code's 9: the permutable words of a direct run
\* (recovery.py:181) and the scrambled entries of a blank-substitution run
\* (trial3_generator.py:27, trial3.py:59)
PermutableCount == 3
\* stands for the 30 of trial3.py:63 (replacement pool size)
PoolCount == 2
\* longest word list handed to generate_permutations on its own
MaxGenLen == 3

(***************************************************************************)
(* Program constants.                                                      *)
(***************************************************************************)
\* recovery.py:177
RequiredFixedCount == 15
\* trial3.py:55
Trial3FixedCount == 15
\* validator.py:61
ConstructFixedCount == 14
\* validator.py:58: 10 = 9 + 1
ConstructPermutedCount == PermutableCount + 1
\* validator.py:76: 24 = 10 + 14
ConstructTotalCount == ConstructPermutedCount + ConstructFixedCount
\* trial3_generator.py:27 and trial3.py:59: the same 9
ScrambledCount == PermutableCount
\* trial3_generator.py:36: 8 = 9 - 1
BaseWordCount == ScrambledCount - 1
\* trial3.py:91 and validator.py:103: 24 = 9 + 15
MnemonicWordCount == ScrambledCount + Trial3FixedCount

(***************************************************************************)
(* Python str operations, on sequences of characters.                      *)
(***************************************************************************)
LetterSeq == <<"a", "b", "c", "d", "e", "f">>
Letters == {LetterSeq[i] : i \in 1..Len(LetterSeq)}

\* the one upper-case letter of the model's alphabet
LowerChar(c) == IF c = "A" THEN "a" ELSE c

\* str.lower()
Lower(s) == [i \in 1..Len(s) |-> LowerChar(s[i])]

RECURSIVE LStripChars(_, _)
LStripChars(s, cs) ==
    IF s # <<>> /\ Head(s) \in cs THEN LStripChars(Tail(s), cs) ELSE s

RECURSIVE RStripChars(_, _)
RStripChars(s, cs) ==
    IF s # <<>> /\ s[Len(s)] \in cs
    THEN RStripChars(SubSeq(s, 1, Len(s) - 1), cs)
    ELSE s

\* str.strip(chars)
StripChars(s, cs) == RStripChars(LStripChars(s, cs), cs)

\* str.strip(): whitespace
Strip(s) == StripChars(s, {" "})

\* str.strip('"\'')
StripQuotes(s) == StripChars(s, {"'", "\""})

Range(s) == {s[i] : i \in 1..Len(s)}

RECURSIVE Join(_)
\* " ".join(words)
Join(words) ==
    IF words = <<>> THEN <<>>
    ELSE IF Len(words) = 1 THEN words[1]
    ELSE words[1] \o <<" ">> \o Join(Tail(words))

RECURSIVE SplitFrom(_, _)
\* the tokens of s, cur being the token read so far
SplitFrom(s, cur) ==
    IF s = <<>> THEN (IF cur = <<>> THEN <<>> ELSE <<cur>>)
    ELSE IF Head(s) = " "
         THEN (IF cur = <<>> THEN <<>> ELSE <<cur>>) \o SplitFrom(Tail(s), <<>>)
         ELSE SplitFrom(Tail(s), Append(cur, Head(s)))

\* str.split(): on runs of whitespace, no empty tokens
Split(s) == SplitFrom(s, <<>>)

(***************************************************************************)
(* MnemonicHandler.wordlist: the vocabulary.  The model's vocabulary is    *)
(* the one-letter words over Letters; every other string is absent.        *)
(***************************************************************************)
wordlist == {<<c>> : c \in Letters}

(***************************************************************************)
(* itertools.permutations(words): the k-th tuple (k from 0) in the order   *)
(* itertools yields them, lexicographic by input position.                 *)
(***************************************************************************)
RECURSIVE Fact(_)
Fact(n) == IF n <= 0 THEN 1 ELSE n * Fact(n - 1)

RemoveAt(s, i) == SubSeq(s, 1, i - 1) \o SubSeq(s, i + 1, Len(s))

RECURSIVE NthPermutation(_, _)
NthPermutation(s, k) ==
    IF s = <<>> THEN <<>>
    ELSE LET f == Fact(Len(s) - 1)
             i == (k \div f) + 1
         IN  <<s[i]>> \o NthPermutation(RemoveAt(s, i), k % f)

(***************************************************************************)
(* State.                                                                  *)
(***************************************************************************)
VARIABLES
    \* a generator object on its own: its arguments, its position, its output
    gen_kind,            \* "direct": WalletRecovery.generate_permutations
                         \* "trial3": generate_trial3_word_sets
    gen_words,           \* words / scrambled_words
    gen_pool,            \* replacement_pool
    gen,                 \* the generator's frame: status, pool_index, cursor, perm_id
    tried_permutations,  \* WalletRecovery.tried_permutations
    yielded,             \* every sequence the generator has yielded, in order
    yielded_ids,         \* the perm_id yielded with each (direct mode)
    \* the world outside the program
    wallet,              \* the wallet that owns the target address: its
                         \* mnemonic and the key level the address is of
    decoy,               \* mnemonics starting with this word pass the checksum
    \* a recovery process
    run_kind,            \* "direct": WalletRecovery, "trial3": Trial3Recovery
    raw_config,          \* the wallet entry of the YAML document
    config,              \* self.config[wallet_id] / the fields of Trial3Recovery
    DERIVATION_PATHS,    \* WalletDeriver.DERIVATION_PATHS (a class attribute)
    wallet_deriver,      \* self.wallet_deriver: None or its target_address
    valid_checksums,     \* WalletRecovery.valid_checksums
    files,               \* the two CSV files: "unopened", "open" or "closed"
    mnemonic_rows,       \* rows written to output/1_mnemonic.csv (no header)
    derivation_rows,     \* rows written to output/2_derivations.csv
    last_mnemonic_row,   \* the last row of each file, <<>> when none
    last_derivation_row,
    pc,                  \* where the process is
    current,             \* what the for loop has just pulled, <<>> when nothing
    step,                \* the last candidate evaluated: what was called for it
    outcome,             \* how recover_wallet / recover / __init__ ended
    \* the process as a whole, and what an observer of a run keeps
    custom_paths,        \* the custom_path of every WalletDeriver constructed
    run,                 \* the number of the run: 1, 2, ...
    clean,               \* no service and no audit write has raised so far
    pulled,              \* candidates the generator has handed out in this run
    mnemonic_trail,      \* the rows this run wrote to 1_mnemonic.csv, each
                         \* with the position of its candidate in the run
    derivation_trail,    \* the same for 2_derivations.csv
    prev_mnemonic_trail  \* mnemonic_trail of the run before this one

genVars == <<gen_kind, gen_words, gen_pool, yielded, yielded_ids>>

runVars == <<wallet, decoy, run_kind, raw_config, config, DERIVATION_PATHS,
             wallet_deriver, valid_checksums, files, mnemonic_rows,
             derivation_rows, last_mnemonic_row, last_derivation_row, pc,
             current, step, outcome, custom_paths, run, clean, pulled,
             mnemonic_trail, derivation_trail, prev_mnemonic_trail>>

\* what an observer keeps of the runs
trailVars == <<mnemonic_trail, derivation_trail, prev_mnemonic_trail>>

vars == <<gen_kind, gen_words, gen_pool, gen, tried_permutations,
          yielded, yielded_ids, wallet, decoy, run_kind, raw_config, config,
          DERIVATION_PATHS, wallet_deriver, valid_checksums, files,
          mnemonic_rows, derivation_rows, last_mnemonic_row,
          last_derivation_row, pc, current, step, outcome, custom_paths,
          run, clean, pulled, mnemonic_trail, derivation_trail,
          prev_mnemonic_trail>>

(***************************************************************************)
(* MnemonicHandler.validate_word_list.  fault: an exception inside the     *)
(* try block, which the except clause turns into False.                    *)
(***************************************************************************)
validate_word_list(words, fault) ==
    IF fault THEN FALSE
    ELSE LET invalid_words ==
                 SelectSeq(words, LAMBDA word : Strip(Lower(word)) \notin wordlist)
         IN  invalid_words = <<>>

(***************************************************************************)
(* Generators.  A generator's frame is                                     *)
(*   status      "fresh" before the first next(), then "running", and      *)
(*               "stopped" (StopIteration) or "raised" (ValueError)        *)
(*   pool_index  the position of `candidate` in replacement_pool           *)
(*   cursor      how many tuples itertools.permutations has handed out     *)
(*   perm_id     the local perm_id                                         *)
(* and a next() returns the frame after it and what it yielded (out is     *)
(* <<>> when nothing was yielded).                                         *)
(***************************************************************************)
FreshGen == [status |-> "fresh", pool_index |-> 1, cursor |-> 0, perm_id |-> 0]

\* NextUntried with the loop ending one tuple early
NextUntried_StopsEarly(words, j, tried) ==
    LET Skip[k \in 0..Fact(Len(words))] ==
            IF k >= Fact(Len(words)) - 1 THEN Fact(Len(words))
            ELSE IF Join(NthPermutation(words, k)) \in tried THEN Skip[k + 1]
            ELSE k
    IN  Skip[IF j > Fact(Len(words)) THEN Fact(Len(words)) ELSE j]

RECURSIVE NextUntried(_, _, _)
\* the loop of recovery.py:95-100: the first tuple from position j on whose
\* joined text is not in tried_permutations; Fact(Len(words)) when none is
NextUntried(words, j, tried) ==
    IF j >= Fact(Len(words)) THEN j
    ELSE IF Join(NthPermutation(words, j)) \in tried
         THEN NextUntried(words, j + 1, tried)
         ELSE j

\* generate_permutations numbering its sequences by their place among the
\* tuples of itertools.permutations, the skipped ones counted
generate_permutations_CountsSkipped(words0, g, tried, fault) ==
    LET words == [i \in 1..Len(words0) |-> Lower(words0[i])]
    IN
    IF g.status \in {"stopped", "raised"}
    THEN [gen |-> g, tried |-> tried, out |-> <<>>]
    ELSE IF g.status = "fresh" /\ ~validate_word_list(words, fault)
    THEN [gen |-> [g EXCEPT !.status = "stopped"], tried |-> tried, out |-> <<>>]
    ELSE LET j == NextUntried(words, g.cursor, tried)
         IN  IF j >= Fact(Len(words))
             THEN [gen |-> [g EXCEPT !.status = "stopped", !.cursor = j],
                   tried |-> tried, out |-> <<>>]
             ELSE LET perm_list == NthPermutation(words, j)
                      perm_str == Join(perm_list)
                  IN  [gen |-> [g EXCEPT !.status = "running",
                                         !.cursor = j + 1,
                                         !.perm_id = j + 1],
                       tried |-> tried \cup {perm_str},
                       out |-> <<[perm |-> perm_list, perm_id |-> j]>>]

\* one next() of WalletRecovery.generate_permutations(words).  fault: an
\* exception inside validate_word_list
generate_permutations(words0, g, tried, fault) ==
    LET words == [i \in 1..Len(words0) |-> Lower(words0[i])]
    IN
    IF g.status \in {"stopped", "raised"}
    THEN [gen |-> g, tried |-> tried, out |-> <<>>]
    ELSE IF g.status = "fresh" /\ ~validate_word_list(words, fault)
    THEN [gen |-> [g EXCEPT !.status = "stopped"], tried |-> tried, out |-> <<>>]
    ELSE LET j == NextUntried(words, g.cursor, tried)
         IN  IF j >= Fact(Len(words))
             THEN [gen |-> [g EXCEPT !.status = "stopped", !.cursor = j],
                   tried |-> tried, out |-> <<>>]
             ELSE LET perm_list == NthPermutation(words, j)
                      perm_str == Join(perm_list)
                  IN  [gen |-> [g EXCEPT !.status = "running",
                                         !.cursor = j + 1,
                                         !.perm_id = g.perm_id + 1],
                       tried |-> tried \cup {perm_str},
                       out |-> <<[perm |-> perm_list, perm_id |-> g.perm_id]>>]

BLANK_TOKEN == <<>>

Count(s, x) == Cardinality({i \in 1..Len(s) : s[i] = x})

\* generate_trial3_word_sets permuting base_words only: the candidate is
\* appended after the permutation instead of before it
generate_trial3_word_sets_PermutesBase(scrambled_words, replacement_pool, g) ==
    LET base_words == SelectSeq(scrambled_words, LAMBDA w : w # BLANK_TOKEN)
    IN
    IF g.status \in {"stopped", "raised"}
    THEN [gen |-> g, out |-> <<>>]
    ELSE IF g.status = "fresh"
            /\ (\/ Len(scrambled_words) # ScrambledCount
                \/ Count(scrambled_words, BLANK_TOKEN) # 1)
    THEN [gen |-> [g EXCEPT !.status = "raised"], out |-> <<>>]
    ELSE IF g.pool_index > Len(replacement_pool)
    THEN [gen |-> [g EXCEPT !.status = "stopped"], out |-> <<>>]
    ELSE LET candidate == Strip(Lower(replacement_pool[g.pool_index]))
             last == g.cursor + 1 >= Fact(Len(base_words))
         IN  [gen |-> [g EXCEPT !.status = "running",
                                !.pool_index = IF last THEN @ + 1 ELSE @,
                                !.cursor = IF last THEN 0 ELSE @ + 1],
              out |-> <<[perm |-> Append(NthPermutation(base_words, g.cursor),
                                         candidate)]>>]

\* generate_trial3_word_sets ending quietly on a bad list (a return where the
\* code raises, as generate_permutations does on a bad word)
generate_trial3_word_sets_ReturnsQuietly(scrambled_words, replacement_pool, g) ==
    LET base_words == SelectSeq(scrambled_words, LAMBDA w : w # BLANK_TOKEN)
    IN
    IF g.status \in {"stopped", "raised"}
    THEN [gen |-> g, out |-> <<>>]
    ELSE IF g.status = "fresh"
            /\ (\/ Len(scrambled_words) # ScrambledCount
                \/ Count(scrambled_words, BLANK_TOKEN) # 1)
    THEN [gen |-> [g EXCEPT !.status = "stopped"], out |-> <<>>]
    ELSE IF g.pool_index > Len(replacement_pool)
    THEN [gen |-> [g EXCEPT !.status = "stopped"], out |-> <<>>]
    ELSE LET candidate == Strip(Lower(replacement_pool[g.pool_index]))
             words_9 == base_words \o <<candidate>>
             last == g.cursor + 1 >= Fact(Len(words_9))
         IN  [gen |-> [g EXCEPT !.status = "running",
                                !.pool_index = IF last THEN @ + 1 ELSE @,
                                !.cursor = IF last THEN 0 ELSE @ + 1],
              out |-> <<[perm |-> NthPermutation(words_9, g.cursor)]>>]

\* one next() of generate_trial3_word_sets(scrambled_words, replacement_pool)
generate_trial3_word_sets(scrambled_words, replacement_pool, g) ==
    LET base_words == SelectSeq(scrambled_words, LAMBDA w : w # BLANK_TOKEN)
    IN
    IF g.status \in {"stopped", "raised"}
    THEN [gen |-> g, out |-> <<>>]
    ELSE IF g.status = "fresh"
            /\ (\/ Len(scrambled_words) # ScrambledCount
                \/ Count(scrambled_words, BLANK_TOKEN) = 0
                \/ Count(scrambled_words, BLANK_TOKEN) # 1
                \/ Len(base_words) # BaseWordCount)
    THEN [gen |-> [g EXCEPT !.status = "raised"], out |-> <<>>]
    ELSE IF g.pool_index > Len(replacement_pool)
    THEN [gen |-> [g EXCEPT !.status = "stopped"], out |-> <<>>]
    ELSE LET candidate == Strip(Lower(replacement_pool[g.pool_index]))
             words_9 == base_words \o <<candidate>>
             last == g.cursor + 1 >= Fact(Len(words_9))
         IN  [gen |-> [g EXCEPT !.status = "running",
                                !.pool_index = IF last THEN @ + 1 ELSE @,
                                !.cursor = IF last THEN 0 ELSE @ + 1],
              out |-> <<[perm |-> NthPermutation(words_9, g.cursor)]>>]

(***************************************************************************)
(* A generator driven to its end, as list(generator) drives it.            *)
(***************************************************************************)
\* the words a caller may hand to a generator: vocabulary words, a word in
\* upper case, a word that is not in the vocabulary
GenWordChoices == {<<"a">>, <<"b">>, <<"c">>, <<"d">>, <<"A">>, <<"z">>}

RECURSIVE SeqsOfLen(_, _)
SeqsOfLen(S, n) ==
    IF n = 0 THEN {<<>>}
    ELSE {Append(s, x) : s \in SeqsOfLen(S, n - 1), x \in S}

SeqsUpTo(S, n) == UNION {SeqsOfLen(S, k) : k \in 0..n}

\* the known scrambled words of a blank-substitution list
KnownWords == [i \in 1..BaseWordCount |-> <<LetterSeq[i]>>]

InsertAt(s, i, x) == SubSeq(s, 1, i - 1) \o <<x>> \o SubSeq(s, i, Len(s))

\* scrambled lists: well formed (one blank, at any position; also with a
\* known word repeated), and ill formed (too short, too long, no blank, two
\* blanks)
ScrambledChoices ==
    {InsertAt(KnownWords, i, BLANK_TOKEN) : i \in 1..ScrambledCount}
    \cup {InsertAt([i \in 1..BaseWordCount |-> <<"a">>], 1, BLANK_TOKEN)}
    \cup {KnownWords,
          Append(KnownWords, <<"e">>),
          Append(InsertAt(KnownWords, 1, BLANK_TOKEN), <<"e">>),
          Append(InsertAt(SubSeq(KnownWords, 1, BaseWordCount - 1),
                          1, BLANK_TOKEN), BLANK_TOKEN)}

\* pool words: two fresh words, a word equal to a known word, a word in upper
\* case, and an empty entry
PoolWordChoices == {<<"e">>, <<"f">>, <<"a">>, <<"A">>, <<>>}

\* no recovery process is running
RunIdle ==
    /\ wallet = [mnemonic |-> <<>>, level |-> "none"]
    /\ decoy = <<>>
    /\ run_kind = "none"
    /\ raw_config = <<>>
    /\ config = <<>>
    /\ DERIVATION_PATHS = <<>>
    /\ wallet_deriver = <<>>
    /\ valid_checksums = 0
    /\ files = "unopened"
    /\ mnemonic_rows = 0
    /\ derivation_rows = 0
    /\ last_mnemonic_row = <<>>
    /\ last_derivation_row = <<>>
    /\ pc = "idle"
    /\ current = <<>>
    /\ step = <<>>
    /\ outcome = <<>>
    /\ custom_paths = <<>>
    /\ run = 0
    /\ clean = TRUE
    /\ pulled = 0
    /\ mnemonic_trail = <<>>
    /\ derivation_trail = <<>>
    /\ prev_mnemonic_trail = <<>>

InitGen ==
    /\ gen_kind \in {"direct", "trial3"}
    /\ IF gen_kind = "direct"
       THEN /\ gen_words \in SeqsUpTo(GenWordChoices, MaxGenLen)
            /\ gen_pool = <<>>
       ELSE /\ gen_words \in ScrambledChoices
            /\ gen_pool \in SeqsUpTo(PoolWordChoices, PoolCount)
    /\ gen = FreshGen
    /\ tried_permutations = {}
    /\ yielded = <<>>
    /\ yielded_ids = <<>>
    /\ RunIdle

\* next(generate_permutations(gen_words))
GenDirectNext ==
    /\ gen_kind = "direct"
    /\ gen.status \in {"fresh", "running"}
    /\ \E r \in {generate_permutations(gen_words, gen, tried_permutations, FALSE)} :
           /\ gen' = r.gen
           /\ tried_permutations' = r.tried
           /\ yielded' = yielded \o [i \in 1..Len(r.out) |-> r.out[i].perm]
           /\ yielded_ids' = yielded_ids \o [i \in 1..Len(r.out) |-> r.out[i].perm_id]
    /\ UNCHANGED <<gen_kind, gen_words, gen_pool, runVars>>

\* next(generate_trial3_word_sets(gen_words, gen_pool))
GenTrial3Next ==
    /\ gen_kind = "trial3"
    /\ gen.status \in {"fresh", "running"}
    /\ \E r \in {generate_trial3_word_sets(gen_words, gen_pool, gen)} :
           /\ gen' = r.gen
           /\ yielded' = yielded \o [i \in 1..Len(r.out) |-> r.out[i].perm]
    /\ UNCHANGED <<gen_kind, gen_words, gen_pool, tried_permutations,
                   yielded_ids, runVars>>

NextGen == GenDirectNext \/ GenTrial3Next

SpecGen == InitGen /\ [][NextGen]_vars

(***************************************************************************)
(* The external services.                                                  *)
(*                                                                         *)
(* Bip39SeedGenerator(mnemonic).Generate() raises unless the mnemonic's    *)
(* checksum holds.  Which mnemonics pass is the world's choice, made once: *)
(* the mnemonic of the wallet that owns the target address passes, and so  *)
(* does every mnemonic whose text starts with the word `decoy`.            *)
(***************************************************************************)
None == <<>>

ChecksumHolds(mnemonic) ==
    \/ mnemonic = wallet.mnemonic
    \/ /\ decoy # None
       /\ Len(mnemonic) > Len(decoy)
       /\ SubSeq(mnemonic, 1, Len(decoy) + 1) = Append(decoy, " ")

(***************************************************************************)
(* A derivation path is its text split at "/".  The default paths:         *)
(***************************************************************************)
DefaultPaths ==
    << <<"m", "44'", "60'", "0'", "0", "0">>,
       <<"m", "44'", "60'", "0'">>,
       <<"m", "44'", "60'", "0'", "0">>,
       <<"m", "44'", "60'", "0", "0">>,
       <<"m", "44'", "60'", "0", "0", "0">>,
       <<"m", "44'", "60'", "0">>,
       <<"m", "44'", "60'">>,
       <<"m", "0'", "0'", "0'">>,
       <<"m", "0", "0", "0">> >>

\* path.lstrip('m/').split('/'): the leading "m" goes
PathParts(path) == LStripChars(path, {"m"})

\* int(part.replace("'", "")) succeeds
IsIndex(part) == part \in {"44'", "60'", "0'", "1'", "0", "1", "44", "60"}

StartsWith44(part) == part \in {"44'", "44"}
StartsWith60(part) == part \in {"60'", "60"}

NoKey == [mnemonic |-> <<>>, level |-> "none"]

RECURSIVE WalkParts(_, _)
\* the loop of wallet.py:54-71 from the context level `level` on: the level
\* the walk ends at, "error" when a step raises.  Purpose() is defined on the
\* master context only and Coin() on the purpose context only; a context of
\* any level has a private key, so the third branch always breaks.
WalkParts(parts, level) ==
    IF parts = <<>> THEN level
    ELSE LET part == Head(parts)
         IN  IF ~IsIndex(part) THEN "error"
             ELSE IF StartsWith44(part)
                  THEN (IF level = "master"
                        THEN WalkParts(Tail(parts), "purpose")
                        ELSE "error")
             ELSE IF StartsWith60(part)
                  THEN (IF level = "purpose"
                        THEN WalkParts(Tail(parts), "coin")
                        ELSE "error")
             ELSE level

\* WalletDeriver._derive_key_from_path: the key, NoKey for None
derive_key_from_path(mnemonic, path) ==
    IF path = DefaultPaths[1]
    THEN [mnemonic |-> mnemonic, level |-> "address_index"]
    ELSE LET level == IF PathParts(path) = <<>> THEN "error"
                      ELSE WalkParts(PathParts(path), "master")
         IN  IF level = "error" THEN NoKey
             ELSE [mnemonic |-> mnemonic, level |-> level]

(***************************************************************************)
(* An address is the key it belongs to and the case of its text: cased     *)
(* when it holds upper-case hex digits, as Account.address (EIP-55) does.  *)
(***************************************************************************)
AddressOfKey(key) == [key |-> key, cased |-> TRUE]

\* str.lower() of an address
LowerAddress(a) == [a EXCEPT !.cased = FALSE]

\* the empty string, as an address
EmptyAddress == [key |-> NoKey, cased |-> FALSE]

\* derive_address returning Account.address as it is (wallet.py:109 without
\* its .lower())
derive_address_KeepsCase(mnemonic, path, fault) ==
    IF fault \/ ~ChecksumHolds(mnemonic) THEN EmptyAddress
    ELSE LET private_key_bytes == derive_key_from_path(mnemonic, path)
         IN  IF private_key_bytes = NoKey THEN EmptyAddress
             ELSE AddressOfKey(private_key_bytes)

\* WalletDeriver.derive_address(mnemonic, path).  fault: an exception inside
\* the try block (seed generation, Bip44.FromSeed, Account.from_key), which
\* the except clause turns into "".
derive_address(mnemonic, path, fault) ==
    IF fault \/ ~ChecksumHolds(mnemonic) THEN EmptyAddress
    ELSE LET private_key_bytes == derive_key_from_path(mnemonic, path)
         IN  IF private_key_bytes = NoKey THEN EmptyAddress
             ELSE LowerAddress(AddressOfKey(private_key_bytes))

RECURSIVE TryOtherPaths_StopsAtFailure(_, _, _, _, _, _)
\* the loop giving up at the first path that yields no address (a break in
\* the place of the continue of wallet.py:139-140)
TryOtherPaths_StopsAtFailure(mnemonic, paths, target_address, faults, i, acc) ==
    IF i > Len(paths)
    THEN [working_path |-> None, derived_address |-> acc.derived_address,
          calls |-> acc.calls, addrs |-> acc.addrs]
    ELSE LET derived_address == derive_address(mnemonic, paths[i], i \in faults)
             calls == Append(acc.calls, paths[i])
             addrs == Append(acc.addrs, derived_address)
         IN  IF derived_address = EmptyAddress
             THEN [working_path |-> None, derived_address |-> derived_address,
                   calls |-> calls, addrs |-> addrs]
             ELSE IF derived_address = target_address
             THEN [working_path |-> paths[i],
                   derived_address |-> derived_address,
                   calls |-> calls, addrs |-> addrs]
             ELSE TryOtherPaths_StopsAtFailure(
                      mnemonic, paths, target_address, faults, i + 1,
                      [derived_address |-> derived_address,
                       calls |-> calls, addrs |-> addrs])

RECURSIVE TryOtherPaths(_, _, _, _, _, _)
\* the loop of wallet.py:136-149 from position i on; derived_address, calls
\* and addrs are what the function holds when it gets there
TryOtherPaths(mnemonic, paths, target_address, faults, i, acc) ==
    IF i > Len(paths)
    THEN [working_path |-> None, derived_address |-> acc.derived_address,
          calls |-> acc.calls, addrs |-> acc.addrs]
    ELSE LET derived_address == derive_address(mnemonic, paths[i], i \in faults)
             calls == Append(acc.calls, paths[i])
             addrs == Append(acc.addrs, derived_address)
         IN  IF derived_address # EmptyAddress
                /\ derived_address = target_address
             THEN [working_path |-> paths[i],
                   derived_address |-> derived_address,
                   calls |-> calls, addrs |-> addrs]
             ELSE TryOtherPaths(mnemonic, paths, target_address, faults, i + 1,
                                [derived_address |-> derived_address,
                                 calls |-> calls, addrs |-> addrs])

\* try_all_derivation_paths naming the head of the list for a match that
\* came at a later path (return self.DERIVATION_PATHS[0] at wallet.py:145)
try_all_derivation_paths_NamesFirstPath(mnemonic, paths, target_address, faults) ==
    LET derived_address == derive_address(mnemonic, paths[1], 1 \in faults)
        t == IF derived_address # EmptyAddress /\ derived_address = target_address
             THEN [working_path |-> paths[1], derived_address |-> derived_address,
                   calls |-> <<paths[1]>>, addrs |-> <<derived_address>>]
             ELSE TryOtherPaths(mnemonic, paths, target_address, faults, 2,
                                [derived_address |-> derived_address,
                                 calls |-> <<paths[1]>>,
                                 addrs |-> <<derived_address>>])
    IN  IF t.working_path = None THEN t
        ELSE [t EXCEPT !.working_path = paths[1]]

\* WalletDeriver.try_all_derivation_paths(mnemonic), self being the deriver
\* with this target_address and paths being DERIVATION_PATHS.  faults: the
\* positions of the paths whose derivation raises.  calls: the paths an
\* address was derived for, in order; addrs: what derive_address returned for
\* each.
try_all_derivation_paths(mnemonic, paths, target_address, faults) ==
    LET derived_address == derive_address(mnemonic, paths[1], 1 \in faults)
    IN  IF derived_address # EmptyAddress /\ derived_address = target_address
        THEN [working_path |-> paths[1], derived_address |-> derived_address,
              calls |-> <<paths[1]>>, addrs |-> <<derived_address>>]
        ELSE TryOtherPaths(mnemonic, paths, target_address, faults, 2,
                           [derived_address |-> derived_address,
                            calls |-> <<paths[1]>>,
                            addrs |-> <<derived_address>>])

\* try_all_derivation_paths was not called
NoTry == [working_path |-> None, derived_address |-> EmptyAddress,
          calls |-> <<>>, addrs |-> <<>>]

\* WalletDeriver.__init__: the class attribute after the construction
WalletDeriver_paths(paths, custom_path) ==
    IF custom_path # None /\ custom_path \notin Range(paths)
    THEN <<custom_path>> \o paths
    ELSE paths

\* WalletDeriver.__init__: self.target_address
WalletDeriver_target(target_address) == LowerAddress(target_address)

(***************************************************************************)
(* MnemonicHandler.                                                        *)
(***************************************************************************)
\* construct_mnemonic: the mnemonic, or the ValueError it raises
construct_mnemonic(permuted_words, fixed_words) ==
    IF Len(permuted_words) # ConstructPermutedCount THEN [raised |-> TRUE, mnemonic |-> <<>>]
    ELSE IF Len(fixed_words) # ConstructFixedCount THEN [raised |-> TRUE, mnemonic |-> <<>>]
    ELSE LET permuted_clean == [i \in 1..Len(permuted_words) |->
                                   StripQuotes(Strip(Lower(permuted_words[i])))]
             fixed_clean == [i \in 1..Len(fixed_words) |->
                                StripQuotes(Strip(Lower(fixed_words[i])))]
             all_words == permuted_clean \o fixed_clean
         IN  IF Len(all_words) # ConstructTotalCount
             THEN [raised |-> TRUE, mnemonic |-> <<>>]
             ELSE [raised |-> FALSE, mnemonic |-> Join(all_words)]

\* validate_checksum generating the seed before it looks at the words
validate_checksum_SeedFirst(mnemonic, wl_fault, seed_fault) ==
    LET words == Split(mnemonic)
        seed_ok == ~seed_fault /\ ChecksumHolds(mnemonic)
    IN  IF Len(words) # MnemonicWordCount
        THEN [valid |-> FALSE, seed_called |-> TRUE, raised |-> FALSE]
        ELSE IF ~validate_word_list(words, wl_fault)
        THEN [valid |-> FALSE, seed_called |-> TRUE, raised |-> FALSE]
        ELSE [valid |-> seed_ok, seed_called |-> TRUE, raised |-> FALSE]

\* validate_checksum without the try statement around seed generation
\* (validator.py:111-116): an exception other than the checksum's leaves it
validate_checksum_Propagates(mnemonic, wl_fault, seed_fault) ==
    LET words == Split(mnemonic)
    IN  IF Len(words) # MnemonicWordCount
        THEN [valid |-> FALSE, seed_called |-> FALSE, raised |-> FALSE]
        ELSE IF ~validate_word_list(words, wl_fault)
        THEN [valid |-> FALSE, seed_called |-> FALSE, raised |-> FALSE]
        ELSE [valid |-> ~seed_fault /\ ChecksumHolds(mnemonic),
              seed_called |-> TRUE, raised |-> seed_fault]

\* validate_checksum(mnemonic).  wl_fault, seed_fault: an exception in the
\* word-list check and in seed generation.  seed_called: whether
\* Bip39SeedGenerator was invoked.  raised: an exception leaves the function;
\* the two try statements see to it that none does.
validate_checksum(mnemonic, wl_fault, seed_fault) ==
    LET words == Split(mnemonic)
    IN  IF Len(words) # MnemonicWordCount
        THEN [valid |-> FALSE, seed_called |-> FALSE, raised |-> FALSE]
        ELSE IF ~validate_word_list(words, wl_fault)
        THEN [valid |-> FALSE, seed_called |-> FALSE, raised |-> FALSE]
        ELSE [valid |-> ~seed_fault /\ ChecksumHolds(mnemonic),
              seed_called |-> TRUE, raised |-> FALSE]

(***************************************************************************)
(* WalletRecovery.process_permutation and the loop body of                 *)
(* Trial3Recovery.recover.  faults: the exceptions the services raise      *)
(* while this candidate is evaluated:                                      *)
(*   wl      in the word-list check                                        *)
(*   seed    in the seed generation of validate_checksum                   *)
(*   derive  the positions in DERIVATION_PATHS whose derivation raises     *)
(*           (0: the derive_address call of recovery.py:147)               *)
(* Both return what the caller sees and what they did:                     *)
(*   raised          an exception leaves the function                      *)
(*   result          None, or <<mnemonic, working_path>>                   *)
(*   mnemonic_row    the row written to 1_mnemonic.csv, in a sequence      *)
(*   derivation_row  the row written to 2_derivations.csv, in a sequence   *)
(*   valid           1 when valid_checksums is incremented                 *)
(*   wordlist_ok     whether the word-list check passed                    *)
(*   seed_calls      how often validate_checksum generated a seed          *)
(*   derive_calls    the paths derive_address was called with, in order    *)
(*   tried           what try_all_derivation_paths returned and did        *)
(*   errors          the services that raised                              *)
(*   mnemonic        the mnemonic text that was assembled, <<>> when none  *)
(*   checked         validate_checksum was called                          *)
(*   checksum_valid  what validate_checksum returned                       *)
(*   write_failed    the audit streams whose writerow raised               *)
(* faults.write: the audit streams whose writerow raises.                  *)
(***************************************************************************)
NoFaults == [wl |-> FALSE, seed |-> FALSE, derive |-> {}, write |-> {}]

Rejected(wordlist_ok, seed_calls, mnemonic_row, errors) ==
    [raised |-> FALSE, result |-> None, mnemonic_row |-> mnemonic_row,
     derivation_row |-> <<>>, valid |-> 0, wordlist_ok |-> wordlist_ok,
     seed_calls |-> seed_calls, derive_calls |-> <<>>, tried |-> NoTry,
     errors |-> errors, mnemonic |-> <<>>, checked |-> FALSE,
     checksum_valid |-> FALSE, write_failed |-> {}]

\* the services that raised, given what was called
ChecksumErrors(v, faults) ==
    IF v.seed_called /\ faults.seed THEN {"checksum"} ELSE {}

DerivationErrors(t, again, faults) ==
    IF \/ \E i \in 1..Len(t.calls) : i \in faults.derive
       \/ again /\ 0 \in faults.derive
    THEN {"derivation"} ELSE {}

process_permutation(permuted_words0, perm_id, fixed_words0, paths, target_address, faults) ==
    LET permuted_words == [i \in 1..Len(permuted_words0) |-> Lower(permuted_words0[i])]
        fixed_words == [i \in 1..Len(fixed_words0) |-> Lower(fixed_words0[i])]
    IN
    IF ~validate_word_list(permuted_words \o fixed_words, faults.wl)
    THEN Rejected(FALSE, 0, <<>>, IF faults.wl THEN {"wordlist"} ELSE {})
    ELSE LET c == construct_mnemonic(permuted_words, fixed_words)
         IN
         IF c.raised THEN Rejected(TRUE, 0, <<>>, {})
         ELSE LET mnemonic == c.mnemonic
                  v == validate_checksum(mnemonic, FALSE, faults.seed)
                  seed_calls == IF v.seed_called THEN 1 ELSE 0
                  row == <<perm_id, mnemonic, v.valid>>
                  Checked(r) == [r EXCEPT !.mnemonic = mnemonic,
                                          !.checked = TRUE,
                                          !.checksum_valid = v.valid]
              IN
              IF v.raised
              THEN Checked(Rejected(TRUE, seed_calls, <<>>,
                                    ChecksumErrors(v, faults)))
              ELSE IF "mnemonic" \in faults.write
              \* writerow raises: the except clause of recovery.py:162
              THEN [Checked(Rejected(TRUE, seed_calls, <<>>,
                                     ChecksumErrors(v, faults)))
                    EXCEPT !.write_failed = {"mnemonic"}]
              ELSE IF ~v.valid
              THEN Checked(Rejected(TRUE, seed_calls, <<row>>,
                                    ChecksumErrors(v, faults)))
              ELSE LET t == try_all_derivation_paths(mnemonic, paths,
                                                     target_address, faults.derive)
                       again == t.derived_address = EmptyAddress
                       derived_address ==
                           IF again
                           THEN derive_address(mnemonic, paths[1], 0 \in faults.derive)
                           ELSE t.derived_address
                       write_fails == /\ derived_address # EmptyAddress
                                      /\ "derivation" \in faults.write
                   IN  [raised |-> FALSE,
                        \* a writerow that raises at recovery.py:143 leaves
                        \* through the except clause of recovery.py:162
                        result |-> IF t.working_path # None /\ ~write_fails
                                   THEN <<mnemonic, t.working_path>>
                                   ELSE None,
                        mnemonic_row |-> <<row>>,
                        derivation_row |->
                            IF derived_address # EmptyAddress /\ ~write_fails
                            THEN <<<<perm_id, derived_address>>>>
                            ELSE <<>>,
                        valid |-> 1,
                        wordlist_ok |-> TRUE,
                        seed_calls |-> seed_calls,
                        derive_calls |-> IF again
                                         THEN Append(t.calls, paths[1])
                                         ELSE t.calls,
                        tried |-> t,
                        errors |-> DerivationErrors(t, again, faults),
                        mnemonic |-> mnemonic,
                        checked |-> TRUE,
                        checksum_valid |-> TRUE,
                        write_failed |-> IF write_fails THEN {"derivation"}
                                         ELSE {}]

\* trial3.py:90-102
recover_body(perm, fixed_words, paths, target_address, faults) ==
    LET mnemonic == Join(perm \o fixed_words)
    IN
    IF Len(Split(mnemonic)) # MnemonicWordCount
    THEN [Rejected(FALSE, 0, <<>>, {}) EXCEPT !.raised = TRUE,
                                              !.mnemonic = mnemonic]
    ELSE LET v == validate_checksum(mnemonic, faults.wl, faults.seed)
             seed_calls == IF v.seed_called THEN 1 ELSE 0
             row == <<mnemonic, v.valid>>
             errors == (IF faults.wl THEN {"wordlist"} ELSE {})
                       \cup ChecksumErrors(v, faults)
             Checked(r) == [r EXCEPT !.mnemonic = mnemonic,
                                     !.checked = TRUE,
                                     !.checksum_valid = v.valid]
         IN
         IF v.raised
         THEN [Checked(Rejected(v.seed_called, seed_calls, <<>>, errors))
               EXCEPT !.raised = TRUE]
         ELSE IF "mnemonic" \in faults.write
         \* writerow raises at trial3.py:94, and nothing catches it
         THEN [Checked(Rejected(v.seed_called, seed_calls, <<>>, errors))
               EXCEPT !.raised = TRUE, !.write_failed = {"mnemonic"}]
         ELSE IF ~v.valid
         THEN Checked(Rejected(v.seed_called, seed_calls, <<row>>, errors))
         ELSE LET t == try_all_derivation_paths(mnemonic, paths,
                                                target_address, faults.derive)
                  write_fails == /\ t.working_path # None
                                 /\ "derivation" \in faults.write
              IN  [raised |-> write_fails,
                   result |-> IF t.working_path # None /\ ~write_fails
                              THEN <<mnemonic, t.working_path>>
                              ELSE None,
                   mnemonic_row |-> <<row>>,
                   derivation_row |->
                       IF t.working_path # None /\ ~write_fails
                       THEN <<<<mnemonic, t.derived_address>>>>
                       ELSE <<>>,
                   valid |-> 0,
                   wordlist_ok |-> TRUE,
                   seed_calls |-> seed_calls,
                   derive_calls |-> t.calls,
                   tried |-> t,
                   errors |-> DerivationErrors(t, FALSE, faults),
                   mnemonic |-> mnemonic,
                   checked |-> TRUE,
                   checksum_valid |-> TRUE,
                   write_failed |-> IF write_fails THEN {"derivation"} ELSE {}]

\* the loops going on after a match (no return at recovery.py:210-212 and
\* trial3.py:99-102)
LoopControl_KeepsScanning(raised, result) ==
    IF raised THEN "raised" ELSE "scanning"

\* the loops giving up at the first candidate that is turned down (a return
\* in the place of the continue of trial3.py:96 and of going round at
\* recovery.py:213)
LoopControl_StopsAtRejection(raised, result) ==
    IF raised THEN "raised"
    ELSE IF result # None THEN "found"
    ELSE "exhausted"

\* what the for statement does with a candidate's result: an exception ends
\* the run, a result is returned, None goes on to the next candidate
\* (recovery.py:209-213, trial3.py:96-102)
LoopControl(raised, result) ==
    IF raised THEN "raised"
    ELSE IF result # None THEN "found"
    ELSE "scanning"

(***************************************************************************)
(* A recovery process: the configurations it may be started on.            *)
(***************************************************************************)
\* n words of the vocabulary, for the fixed positions
FixedWords(n) == [i \in 1..n |-> <<LetterSeq[4 + ((i - 1) % 3)]>>]

\* n distinct words of the vocabulary, for the permutable positions
PermutableWords(n) == [i \in 1..n |-> <<LetterSeq[i]>>]

\* n words of the vocabulary, for the replacement pool
PoolWords(n) == [i \in 1..n |-> <<LetterSeq[7 - i]>>]

ReplaceAt(s, i, x) == [s EXCEPT ![i] = x]

\* derivation_path of the wallet entry: absent, a path that is not a default
\* path, a default path, and two texts no key can be derived along
CustomPathChoices ==
    {None,
     <<"m", "44'", "60'", "1'", "0", "0">>,
     DefaultPaths[2],
     <<"m", "x">>,
     <<"m", "60'", "44'">>}

RawConfig(fixed_words, words, replacement_pool, derivation_path) ==
    [fixed_words |-> fixed_words, words |-> words,
     replacement_pool |-> replacement_pool, derivation_path |-> derivation_path]

DirectPlain ==
    RawConfig(FixedWords(RequiredFixedCount), PermutableWords(PermutableCount),
              <<>>, None)

Trial3Plain ==
    RawConfig(FixedWords(Trial3FixedCount), InsertAt(KnownWords, 2, BLANK_TOKEN),
              PoolWords(PoolCount), None)

\* wallet entries for WalletRecovery: words is permutable_words
DirectConfigs ==
    LET fixed == FixedWords(RequiredFixedCount)
        words == PermutableWords(PermutableCount)
    IN  {RawConfig(fixed, words, <<>>, cp) : cp \in CustomPathChoices}
        \cup {\* the split construct_mnemonic documents: 10 permuted, 14 fixed
              RawConfig(FixedWords(ConstructFixedCount),
                        PermutableWords(ConstructPermutedCount), <<>>, None),
              \* one fixed word short
              RawConfig(FixedWords(RequiredFixedCount - 1), words, <<>>, None),
              \* a repeated permutable word
              RawConfig(fixed, ReplaceAt(words, 2, words[1]), <<>>, None),
              \* words that are not in the vocabulary
              RawConfig(fixed, ReplaceAt(words, 1, <<"z">>), <<>>, None),
              RawConfig(ReplaceAt(fixed, 1, <<"z">>), words, <<>>, None),
              \* words as a hand-edited document may hold them
              RawConfig(ReplaceAt(fixed, 1, <<"'", "d", "'">>),
                        ReplaceAt(ReplaceAt(words, 1, <<"A">>), 2, <<" ", "b">>),
                        <<>>, None)}

\* wallet entries for Trial3Recovery: words is scrambled_words
Trial3Configs ==
    LET fixed == FixedWords(Trial3FixedCount)
        words == InsertAt(KnownWords, 2, BLANK_TOKEN)
        pool == PoolWords(PoolCount)
    IN  {RawConfig(fixed, words, pool, cp) : cp \in CustomPathChoices}
        \cup {\* one fixed word short
              RawConfig(FixedWords(Trial3FixedCount - 1), words, pool, None),
              \* scrambled lists that break the contract
              RawConfig(fixed, KnownWords, pool, None),
              RawConfig(fixed, Append(KnownWords, <<"c">>), pool, None),
              RawConfig(fixed, Append(words, <<"c">>), pool, None),
              RawConfig(fixed, ReplaceAt(words, 1, BLANK_TOKEN), pool, None),
              \* an entry of one space: a second blank once it is trimmed
              RawConfig(fixed, ReplaceAt(words, 1, <<" ">>), pool, None),
              \* a pool of the wrong size
              RawConfig(fixed, words, PoolWords(PoolCount - 1), None),
              \* words that are not in the vocabulary
              RawConfig(fixed, ReplaceAt(words, 1, <<"z">>), pool, None),
              RawConfig(fixed, words, ReplaceAt(pool, 1, <<"z">>), None),
              RawConfig(ReplaceAt(fixed, 1, <<"z">>), words, pool, None),
              \* an empty pool entry, a pool entry equal to a known word
              RawConfig(fixed, words, ReplaceAt(pool, 1, <<>>), None),
              RawConfig(fixed, words, ReplaceAt(pool, 1, KnownWords[1]), None),
              \* words as a hand-edited document may hold them
              RawConfig(fixed, ReplaceAt(words, 1, <<"A">>),
                        ReplaceAt(pool, 1, <<" ", "f">>), None)}

\* recovery.py:65 and :73: str(word).lower().strip().strip('"\'')
load_config_word(word) == StripQuotes(Strip(Lower(word)))

\* trial3.py:67-69: w.lower().strip()
trial3_word(w) == Strip(Lower(w))

Normalized(kind, words) ==
    [i \in 1..Len(words) |->
        IF kind = "direct" THEN load_config_word(words[i]) ELSE trial3_word(words[i])]

\* the mnemonics a process on this configuration can come to test: the
\* second and the last ordering of the permutable words, and for a pool the
\* same of its first and of its last entry
CandidateMnemonics(kind, raw) ==
    LET fixed == Normalized(kind, raw.fixed_words)
        words == Normalized(kind, raw.words)
        base == SelectSeq(words, LAMBDA w : w # BLANK_TOKEN)
        pool == Normalized(kind, raw.replacement_pool)
        Of(ws) == {Join(NthPermutation(ws, r) \o fixed) : r \in {1, Fact(Len(ws)) - 1}}
    IN  IF kind = "direct" THEN Of(words)
        ELSE UNION {Of(Append(base, pool[j])) : j \in {1, Len(pool)} \cap DOMAIN pool}

\* the wallet that owns the target address: one nobody can reach, or one of
\* the candidate mnemonics at the key level of the first default path or at
\* the coin level
UnknownWallet == [mnemonic |-> <<>>, level |-> "address_index"]

WalletChoices(kind, raw) ==
    {UnknownWallet}
    \cup {[mnemonic |-> m, level |-> l] :
             m \in CandidateMnemonics(kind, raw), l \in {"address_index", "coin"}}

\* how the world may be for a configuration: every choice of wallet, decoy
\* and address case for the plain configuration of each kind, and for the
\* others the wallet at the first default path, no decoy, a cased address
Worlds(kind, raw) ==
    IF raw = (IF kind = "direct" THEN DirectPlain ELSE Trial3Plain)
    THEN {[wallet |-> w, decoy |-> d, cased |-> c] :
             w \in WalletChoices(kind, raw), d \in {None, <<"a">>}, c \in BOOLEAN}
    ELSE {[wallet |-> w, decoy |-> None, cased |-> TRUE] :
             w \in {x \in WalletChoices(kind, raw) : x.level = "address_index"}}

(***************************************************************************)
(* A recovery process: its steps.                                          *)
(***************************************************************************)
NoOutcome == [kind |-> "none", value |-> None]
Returned(value) == [kind |-> "returned", value |-> value]
Raised == [kind |-> "raised", value |-> None]

NoStep == [words |-> <<>>, wordlist_ok |-> FALSE, seed_calls |-> 0,
           derive_calls |-> <<>>, tried |-> NoTry, errors |-> {},
           result |-> None, candidate |-> 0, mnemonic |-> <<>>,
           checked |-> FALSE, checksum_valid |-> FALSE, write_failed |-> {},
           mnemonic_row |-> <<>>, derivation_row |-> <<>>]

GenIdle ==
    /\ gen_kind = "none"
    /\ gen_words = <<>>
    /\ gen_pool = <<>>
    /\ yielded = <<>>
    /\ yielded_ids = <<>>

\* the process starts: the document is read, nothing is constructed yet
Init ==
    /\ GenIdle
    /\ run_kind \in {"direct", "trial3"}
    /\ \E raw \in (IF run_kind = "direct" THEN DirectConfigs ELSE Trial3Configs) :
          \E w \in Worlds(run_kind, raw) :
             /\ wallet = w.wallet
             /\ decoy = w.decoy
             /\ raw_config = [fixed_words |-> raw.fixed_words,
                              words |-> raw.words,
                              replacement_pool |-> raw.replacement_pool,
                              derivation_path |-> raw.derivation_path,
                              target_address |->
                                  [AddressOfKey(w.wallet) EXCEPT !.cased = w.cased]]
    /\ config = None
    /\ DERIVATION_PATHS = DefaultPaths
    /\ wallet_deriver = None
    /\ valid_checksums = 0
    /\ files = "unopened"
    /\ mnemonic_rows = 0
    /\ derivation_rows = 0
    /\ last_mnemonic_row = <<>>
    /\ last_derivation_row = <<>>
    /\ gen = FreshGen
    /\ tried_permutations = {}
    /\ pc = "start"
    /\ current = <<>>
    /\ step = NoStep
    /\ outcome = NoOutcome
    /\ custom_paths = <<>>
    /\ run = 1
    /\ clean = TRUE
    /\ pulled = 0
    /\ mnemonic_trail = <<>>
    /\ derivation_trail = <<>>
    /\ prev_mnemonic_trail = <<>>

\* the runs a process makes at most
MaxRuns == 2

\* open(..., "w") of recovery.py:38-44 and trial3.py:76-81: both files are
\* cut to their header row
FilesOpened ==
    /\ files' = "open"
    /\ mnemonic_rows' = 0
    /\ derivation_rows' = 0
    /\ last_mnemonic_row' = <<>>
    /\ last_derivation_row' = <<>>

\* WalletRecovery.__init__ (load_config included)
ConstructWalletRecovery ==
    /\ pc = "start"
    /\ run_kind = "direct"
    /\ config' = [fixed_words |-> Normalized("direct", raw_config.fixed_words),
                  words |-> Normalized("direct", raw_config.words),
                  replacement_pool |-> raw_config.replacement_pool,
                  derivation_path |-> raw_config.derivation_path,
                  target_address |-> LowerAddress(raw_config.target_address)]
    /\ wallet_deriver' = None
    /\ tried_permutations' = {}
    /\ valid_checksums' = 0
    /\ FilesOpened
    /\ pc' = "constructed"
    /\ UNCHANGED <<genVars, gen, wallet, decoy, run_kind, raw_config,
                   DERIVATION_PATHS, current, step, outcome, custom_paths,
                   run, clean, pulled, trailVars>>

\* Trial3Recovery.__init__
ConstructTrial3Recovery ==
    /\ pc = "start"
    /\ run_kind = "trial3"
    /\ IF \/ Len(raw_config.fixed_words) # Trial3FixedCount
          \/ Len(raw_config.words) # ScrambledCount
          \/ Count(raw_config.words, BLANK_TOKEN) # 1
          \/ Len(raw_config.replacement_pool) # PoolCount
       THEN /\ pc' = "raised"
            /\ outcome' = Raised
            /\ UNCHANGED <<config, DERIVATION_PATHS, wallet_deriver, files,
                           mnemonic_rows, derivation_rows, last_mnemonic_row,
                           last_derivation_row, custom_paths>>
       ELSE /\ config' = [fixed_words |-> Normalized("trial3", raw_config.fixed_words),
                          words |-> Normalized("trial3", raw_config.words),
                          replacement_pool |->
                              Normalized("trial3", raw_config.replacement_pool),
                          derivation_path |-> raw_config.derivation_path,
                          target_address |-> LowerAddress(raw_config.target_address)]
            /\ DERIVATION_PATHS' =
                   WalletDeriver_paths(DERIVATION_PATHS, raw_config.derivation_path)
            /\ wallet_deriver' =
                   WalletDeriver_target(LowerAddress(raw_config.target_address))
            /\ custom_paths' = Append(custom_paths, raw_config.derivation_path)
            /\ FilesOpened
            /\ pc' = "constructed"
            /\ UNCHANGED outcome
    /\ UNCHANGED <<genVars, gen, tried_permutations, wallet, decoy, run_kind,
                   raw_config, valid_checksums, current, step, run, clean,
                   pulled, trailVars>>

\* WalletRecovery.recover_wallet up to its loop (recovery.py:170-203).
\* fault: an exception inside validate_word_list
recover_wallet ==
    /\ pc = "constructed"
    /\ run_kind = "direct"
    /\ \E fault \in BOOLEAN :
          LET target_address == LowerAddress(config.target_address)
              fixed_words == config.fixed_words
              permutable_words == config.words
              custom_path == config.derivation_path
          IN  IF \/ Len(fixed_words) # RequiredFixedCount
                 \/ Len(permutable_words) # PermutableCount
                 \/ ~validate_word_list(fixed_words \o permutable_words, fault)
              THEN /\ pc' = "rejected"
                   /\ outcome' = Returned(None)
                   /\ clean' = (clean /\ (~fault
                                          \/ Len(fixed_words) # RequiredFixedCount
                                          \/ Len(permutable_words) # PermutableCount))
                   /\ UNCHANGED <<DERIVATION_PATHS, wallet_deriver, gen,
                                  custom_paths>>
              ELSE /\ DERIVATION_PATHS' =
                          WalletDeriver_paths(DERIVATION_PATHS, custom_path)
                   /\ wallet_deriver' = WalletDeriver_target(target_address)
                   /\ custom_paths' = Append(custom_paths, custom_path)
                   /\ gen' = FreshGen
                   /\ pc' = "scanning"
                   /\ UNCHANGED <<outcome, clean>>
    /\ UNCHANGED <<genVars, tried_permutations, wallet, decoy, run_kind,
                   raw_config, config, valid_checksums, files, mnemonic_rows,
                   derivation_rows, last_mnemonic_row, last_derivation_row,
                   current, step, run, pulled, trailVars>>

\* Trial3Recovery.recover up to its loop (trial3.py:84-89)
recover ==
    /\ pc = "constructed"
    /\ run_kind = "trial3"
    /\ gen' = FreshGen
    /\ pc' = "scanning"
    /\ UNCHANGED <<genVars, tried_permutations, wallet, decoy, run_kind,
                   raw_config, config, DERIVATION_PATHS, wallet_deriver,
                   valid_checksums, files, mnemonic_rows, derivation_rows,
                   last_mnemonic_row, last_derivation_row, current, step,
                   outcome, custom_paths, run, clean, pulled, trailVars>>

\* the for statement asks the generator for its next candidate
\* (recovery.py:207, trial3.py:89); at the generator's end the function
\* returns None (recovery.py:215-218, trial3.py:103)
PullCandidate ==
    /\ pc = "scanning"
    /\ \E fault \in BOOLEAN :
          \E r \in {IF run_kind = "direct"
                     THEN generate_permutations(config.words, gen,
                                                tried_permutations, fault)
                     ELSE generate_trial3_word_sets(config.words,
                                                    config.replacement_pool, gen)
                          @@ [tried |-> tried_permutations]} :
              /\ gen' = r.gen
              /\ tried_permutations' = r.tried
              /\ clean' = (clean /\ ~(/\ fault
                                      /\ run_kind = "direct"
                                      /\ gen.status = "fresh"))
              /\ IF r.out # <<>>
                 THEN /\ current' = r.out
                      /\ pulled' = pulled + 1
                      /\ pc' = "processing"
                      /\ UNCHANGED outcome
                 ELSE /\ current' = <<>>
                      /\ pulled' = pulled
                      /\ IF r.gen.status = "raised"
                         THEN pc' = "raised" /\ outcome' = Raised
                         ELSE pc' = "exhausted" /\ outcome' = Returned(None)
    /\ UNCHANGED <<genVars, wallet, decoy, run_kind, raw_config, config,
                   DERIVATION_PATHS, wallet_deriver, valid_checksums, files,
                   mnemonic_rows, derivation_rows, last_mnemonic_row,
                   last_derivation_row, step, custom_paths, run, trailVars>>

\* the faults a candidate's evaluation may meet: none, the word-list check
\* raises, seed generation raises, the derivation raises for one path or for
\* every path, a writerow raises.  A process meets one failing candidate at
\* most: after it every service answers.
FaultChoices ==
    IF ~clean THEN {NoFaults}
    ELSE {NoFaults, [NoFaults EXCEPT !.wl = TRUE], [NoFaults EXCEPT !.seed = TRUE]}
         \cup {[NoFaults EXCEPT !.derive = d] :
                  d \in {0..Len(DERIVATION_PATHS)}
                        \cup {{i} : i \in 1..Len(DERIVATION_PATHS)}}
         \cup {[NoFaults EXCEPT !.write = {f}] : f \in {"mnemonic", "derivation"}}

\* a writer that puts its rows in front of the file's
AppendRows_Prepends(trail, candidate, rows) ==
    [i \in 1..Len(rows) |-> [candidate |-> candidate, row |-> rows[i]]] \o trail

\* writer.writerow (recovery.py:127, :143, trial3.py:94, :101): the rows go
\* to the end of the stream; candidate is the position of their candidate in
\* the run, counted from 0
AppendRows(trail, candidate, rows) ==
    trail \o [i \in 1..Len(rows) |-> [candidate |-> candidate, row |-> rows[i]]]

\* what is kept of a candidate's evaluation
StepOf(words, candidate, r) ==
    [words |-> words,
     wordlist_ok |-> r.wordlist_ok,
     seed_calls |-> r.seed_calls,
     derive_calls |-> r.derive_calls,
     tried |-> r.tried,
     errors |-> r.errors,
     result |-> r.result,
     candidate |-> candidate,
     mnemonic |-> r.mnemonic,
     checked |-> r.checked,
     checksum_valid |-> r.checksum_valid,
     write_failed |-> r.write_failed,
     mnemonic_row |-> r.mnemonic_row,
     derivation_row |-> r.derivation_row]

\* the body of the for statement (recovery.py:208-213, trial3.py:90-102)
ProcessCandidate ==
    /\ pc = "processing"
    /\ \E faults \in FaultChoices :
          \E r \in {IF run_kind = "direct"
                     THEN process_permutation(current[1].perm, current[1].perm_id,
                                              config.fixed_words, DERIVATION_PATHS,
                                              wallet_deriver, faults)
                     ELSE recover_body(current[1].perm, config.fixed_words,
                                       DERIVATION_PATHS, wallet_deriver, faults)} :
              /\ step' = StepOf(current[1].perm \o config.fixed_words,
                                pulled - 1, r)
              /\ valid_checksums' = valid_checksums + r.valid
              /\ mnemonic_rows' = mnemonic_rows + Len(r.mnemonic_row)
              /\ last_mnemonic_row' = IF r.mnemonic_row # <<>>
                                      THEN r.mnemonic_row[1] ELSE last_mnemonic_row
              /\ derivation_rows' = derivation_rows + Len(r.derivation_row)
              /\ last_derivation_row' = IF r.derivation_row # <<>>
                                        THEN r.derivation_row[1]
                                        ELSE last_derivation_row
              /\ mnemonic_trail' =
                     AppendRows(mnemonic_trail, pulled - 1, r.mnemonic_row)
              /\ derivation_trail' =
                     AppendRows(derivation_trail, pulled - 1, r.derivation_row)
              /\ clean' = (clean /\ r.errors = {} /\ r.write_failed = {})
              /\ pc' = LoopControl(r.raised, r.result)
              /\ outcome' = IF pc' = "raised" THEN Raised
                            ELSE IF pc' = "found" THEN Returned(r.result)
                            ELSE outcome
    /\ current' = <<>>
    /\ UNCHANGED <<genVars, gen, tried_permutations, wallet, decoy, run_kind,
                   raw_config, config, DERIVATION_PATHS, wallet_deriver, files,
                   custom_paths, run, pulled, prev_mnemonic_trail>>

\* a run has ended without a match and another is started.  Only a run in
\* which every service answered is repeated: the runs to compare are runs of
\* the same world.
NextRunStarts ==
    /\ pc \in {"exhausted", "rejected"}
    /\ run < MaxRuns
    /\ clean
    /\ run' = run + 1
    /\ prev_mnemonic_trail' = mnemonic_trail
    /\ mnemonic_trail' = <<>>
    /\ derivation_trail' = <<>>
    /\ pulled' = 0
    /\ current' = <<>>
    /\ step' = NoStep
    /\ outcome' = NoOutcome

\* the entry point is called once more on the same object
RunAgain ==
    /\ NextRunStarts
    /\ files = "open"
    /\ pc' = "constructed"
    /\ UNCHANGED <<genVars, gen, tried_permutations, wallet, decoy, run_kind,
                   raw_config, config, DERIVATION_PATHS, wallet_deriver,
                   valid_checksums, files, mnemonic_rows, derivation_rows,
                   last_mnemonic_row, last_derivation_row, custom_paths, clean>>

\* main() is entered once more in the same process, on the same document: a
\* new object, the classes as the run before left them
NewObject ==
    /\ NextRunStarts
    /\ pc' = "start"
    /\ config' = None
    /\ wallet_deriver' = None
    /\ files' = "unopened"
    /\ gen' = FreshGen
    /\ UNCHANGED <<genVars, tried_permutations, wallet, decoy, run_kind,
                   raw_config, DERIVATION_PATHS, valid_checksums,
                   mnemonic_rows, derivation_rows, last_mnemonic_row,
                   last_derivation_row, custom_paths, clean>>

\* __del__ of the object (recovery.py:220-226, trial3.py:105-110): when the
\* last reference to it is gone, which is after the entry point has returned
\* or raised
__del__ ==
    /\ pc \in {"found", "exhausted", "rejected", "raised"}
    /\ files = "open"
    /\ files' = "closed"
    /\ UNCHANGED <<genVars, gen, tried_permutations, wallet, decoy, run_kind,
                   raw_config, config, DERIVATION_PATHS, wallet_deriver,
                   valid_checksums, mnemonic_rows, derivation_rows,
                   last_mnemonic_row, last_derivation_row, pc, current, step,
                   outcome, custom_paths, run, clean, pulled, trailVars>>

Next ==
    \/ ConstructWalletRecovery
    \/ ConstructTrial3Recovery
    \/ recover_wallet
    \/ recover
    \/ PullCandidate
    \/ ProcessCandidate
    \/ RunAgain
    \/ NewObject
    \/ __del__

Spec == Init /\ [][Next]_vars

\* one turn of the search loop's for statement, seen through the position of
\* the run alone: the run stands at the loop head or at the loop body and
\* leaves that position.  Every PullCandidate and every ProcessCandidate step
\* is such a turn, and no other action is enabled at these positions.
SearchLoopAdvances ==
    /\ pc \in {"scanning", "processing"}
    /\ pc' \in {"scanning", "processing", "found", "exhausted", "raised"}

\* a process as main() runs it (recovery.py:228-231, trial3.py:112-116): one
\* object, one search.  The interpreter goes on executing a for statement it
\* has entered: the generator is asked for its next candidate, and a
\* candidate that was handed over is evaluated
NextMain ==
    \/ ConstructWalletRecovery
    \/ ConstructTrial3Recovery
    \/ recover_wallet
    \/ recover
    \/ PullCandidate
    \/ ProcessCandidate
    \/ __del__

SpecFair == Init /\ [][NextMain]_vars /\ WF_pc(SearchLoopAdvances)

(***************************************************************************)
(* The classes used directly, as src/test2.py uses WalletDeriver: a caller *)
(* that holds a WalletRecovery object constructs WalletDeriver objects and *)
(* calls try_all_derivation_paths or process_permutation itself, once.     *)
(* The wallet entry is the one src/test_wallet_gen.py writes: 10           *)
(* permutable and 14 fixed words.                                          *)
(***************************************************************************)
\* the WalletDeriver objects a caller constructs at most
MaxDerivers == 2

ApiEntry ==
    RawConfig(FixedWords(ConstructFixedCount),
              PermutableWords(ConstructPermutedCount), <<>>, None)

\* the orderings the caller hands in: the first, the second and the last
ApiRanks(words) == {0, 1, Fact(Len(words)) - 1}

InitApi ==
    /\ GenIdle
    /\ gen = FreshGen
    /\ tried_permutations = {}
    /\ run_kind = "api"
    /\ \E w \in WalletChoices("direct", ApiEntry), cased \in BOOLEAN :
          /\ wallet = w
          /\ decoy \in (IF w = UnknownWallet /\ cased THEN {None, <<"a">>}
                        ELSE {None})
          /\ raw_config = [fixed_words |-> ApiEntry.fixed_words,
                           words |-> ApiEntry.words,
                           replacement_pool |-> <<>>,
                           derivation_path |-> None,
                           target_address |->
                               [AddressOfKey(w) EXCEPT !.cased = cased]]
          /\ config = [fixed_words |-> Normalized("direct", ApiEntry.fixed_words),
                       words |-> Normalized("direct", ApiEntry.words),
                       replacement_pool |-> <<>>,
                       derivation_path |-> None,
                       target_address |->
                           LowerAddress([AddressOfKey(w) EXCEPT !.cased = cased])]
    /\ DERIVATION_PATHS = DefaultPaths
    /\ wallet_deriver = None
    /\ valid_checksums = 0
    /\ files = "open"
    /\ mnemonic_rows = 0
    /\ derivation_rows = 0
    /\ last_mnemonic_row = <<>>
    /\ last_derivation_row = <<>>
    /\ pc = "api"
    /\ current = <<>>
    /\ step = NoStep
    /\ outcome = NoOutcome
    /\ custom_paths = <<>>
    /\ run = 1
    /\ clean = TRUE
    /\ pulled = 0
    /\ mnemonic_trail = <<>>
    /\ derivation_trail = <<>>
    /\ prev_mnemonic_trail = <<>>

\* wallet_deriver = WalletDeriver(target_address, custom_path)
\* (test2.py:73, recovery.py:199)
NewWalletDeriver ==
    /\ pc = "api"
    /\ Len(custom_paths) < MaxDerivers
    /\ \E custom_path \in CustomPathChoices :
          /\ DERIVATION_PATHS' = WalletDeriver_paths(DERIVATION_PATHS, custom_path)
          /\ custom_paths' = Append(custom_paths, custom_path)
    /\ wallet_deriver' = WalletDeriver_target(config.target_address)
    /\ UNCHANGED <<genVars, gen, tried_permutations, wallet, decoy, run_kind,
                   raw_config, config, valid_checksums, files, mnemonic_rows,
                   derivation_rows, last_mnemonic_row, last_derivation_row,
                   pc, current, step, outcome, run, clean, pulled, trailVars>>

\* wallet_deriver.try_all_derivation_paths(mnemonic) (test2.py:104)
CallTryAll ==
    /\ pc = "api"
    /\ wallet_deriver # None
    /\ \E k \in ApiRanks(config.words), faults \in FaultChoices :
          \E mnemonic \in {Join(NthPermutation(config.words, k)
                                \o config.fixed_words)} :
          \E t \in {try_all_derivation_paths(mnemonic, DERIVATION_PATHS,
                                             wallet_deriver, faults.derive)} :
             /\ faults.write = {}
             /\ ~faults.wl
             /\ ~faults.seed
             /\ step' = [NoStep EXCEPT
                            !.words = NthPermutation(config.words, k)
                                      \o config.fixed_words,
                            !.mnemonic = mnemonic,
                            !.derive_calls = t.calls,
                            !.tried = t,
                            !.errors = DerivationErrors(t, FALSE, faults)]
             /\ clean' = (clean /\ DerivationErrors(t, FALSE, faults) = {})
             /\ outcome' = Returned(<<t.working_path, t.derived_address>>)
    /\ pc' = "called"
    /\ UNCHANGED <<genVars, gen, tried_permutations, wallet, decoy, run_kind,
                   raw_config, config, DERIVATION_PATHS, wallet_deriver,
                   valid_checksums, files, mnemonic_rows, derivation_rows,
                   last_mnemonic_row, last_derivation_row, current,
                   custom_paths, run, pulled, trailVars>>

\* recovery.process_permutation(permutation, perm_id, fixed_words,
\* target_address), the caller numbering its candidates as itertools does
\* and handing in the entry's fixed words, or all of them but the first
CallProcessPermutation ==
    /\ pc = "api"
    /\ wallet_deriver # None
    /\ \E k \in ApiRanks(config.words), faults \in FaultChoices,
          fixed_words \in {config.fixed_words, Tail(config.fixed_words)} :
          \E r \in {process_permutation(NthPermutation(config.words, k),
                                        k, fixed_words,
                                        DERIVATION_PATHS, wallet_deriver,
                                        faults)} :
             /\ fixed_words # config.fixed_words => faults = NoFaults
             /\ step' = StepOf(NthPermutation(config.words, k)
                               \o fixed_words, k, r)
             /\ valid_checksums' = valid_checksums + r.valid
             /\ mnemonic_rows' = mnemonic_rows + Len(r.mnemonic_row)
             /\ last_mnemonic_row' = IF r.mnemonic_row # <<>>
                                     THEN r.mnemonic_row[1] ELSE last_mnemonic_row
             /\ derivation_rows' = derivation_rows + Len(r.derivation_row)
             /\ last_derivation_row' = IF r.derivation_row # <<>>
                                       THEN r.derivation_row[1]
                                       ELSE last_derivation_row
             /\ clean' = (clean /\ r.errors = {} /\ r.write_failed = {})
             /\ outcome' = IF r.raised THEN Raised ELSE Returned(r.result)
    /\ pc' = "called"
    /\ UNCHANGED <<genVars, gen, tried_permutations, wallet, decoy, run_kind,
                   raw_config, config, DERIVATION_PATHS, wallet_deriver, files,
                   current, custom_paths, run, pulled, trailVars>>

\* the caller starts a search of its own on the recovery object, and once
\* more when the search found nothing:
\* for permutation, perm_id in recovery.generate_permutations(words): ...
StartSearchLoop ==
    /\ \/ pc = "api" /\ run' = run
       \/ /\ pc = "searched"
          /\ outcome = Returned(None)
          /\ run < MaxRuns
          /\ run' = run + 1
    /\ Len(custom_paths) = 1
    /\ gen' = FreshGen
    /\ pulled' = 0
    /\ prev_mnemonic_trail' = mnemonic_trail
    /\ mnemonic_trail' = <<>>
    /\ derivation_trail' = <<>>
    /\ step' = NoStep
    /\ outcome' = NoOutcome
    /\ pc' = "searching"
    /\ UNCHANGED <<genVars, tried_permutations, wallet, decoy, run_kind,
                   raw_config, config, DERIVATION_PATHS, wallet_deriver,
                   valid_checksums, files, mnemonic_rows, derivation_rows,
                   last_mnemonic_row, last_derivation_row, current,
                   custom_paths, clean>>

\* one turn of the caller's for statement, every service answering: next()
\* on generate_permutations and
\* recovery.process_permutation(permutation, perm_id, fixed_words, target)
\* (the statement of recovery.py:207-213)
SearchLoopTurn ==
    /\ pc = "searching"
    /\ \E n \in {generate_permutations(config.words, gen, tried_permutations,
                                       FALSE)} :
          /\ gen' = n.gen
          /\ tried_permutations' = n.tried
          /\ IF n.out = <<>>
             THEN /\ pc' = "searched"
                  /\ outcome' = Returned(None)
                  /\ UNCHANGED <<step, pulled, valid_checksums, mnemonic_rows,
                                 derivation_rows, last_mnemonic_row,
                                 last_derivation_row, mnemonic_trail,
                                 derivation_trail>>
             ELSE \E r \in {process_permutation(n.out[1].perm, n.out[1].perm_id,
                                                config.fixed_words,
                                                DERIVATION_PATHS, wallet_deriver,
                                                NoFaults)} :
                     /\ step' = StepOf(n.out[1].perm \o config.fixed_words,
                                       pulled, r)
                     /\ pulled' = pulled + 1
                     /\ valid_checksums' = valid_checksums + r.valid
                     /\ mnemonic_rows' = mnemonic_rows + Len(r.mnemonic_row)
                     /\ last_mnemonic_row' =
                            IF r.mnemonic_row # <<>>
                            THEN r.mnemonic_row[1] ELSE last_mnemonic_row
                     /\ derivation_rows' = derivation_rows + Len(r.derivation_row)
                     /\ last_derivation_row' =
                            IF r.derivation_row # <<>>
                            THEN r.derivation_row[1] ELSE last_derivation_row
                     /\ mnemonic_trail' =
                            AppendRows(mnemonic_trail, pulled, r.mnemonic_row)
                     /\ derivation_trail' =
                            AppendRows(derivation_trail, pulled, r.derivation_row)
                     /\ IF LoopControl(r.raised, r.result) = "scanning"
                        THEN pc' = "searching" /\ UNCHANGED outcome
                        ELSE pc' = "searched" /\ outcome' = Returned(r.result)
    /\ UNCHANGED <<genVars, wallet, decoy, run_kind, raw_config, config,
                   DERIVATION_PATHS, wallet_deriver, files, current,
                   custom_paths, run, clean, prev_mnemonic_trail>>

NextApi ==
    \/ NewWalletDeriver
    \/ CallTryAll
    \/ CallProcessPermutation
    \/ StartSearchLoop
    \/ SearchLoopTurn

SpecApi == InitApi /\ [][NextApi]_vars

(***************************************************************************)
(* The normalisation of the configured words on its own: a word of the     *)
(* document is normalised as its mode normalises it, and cleaned once more *)
(* where the code does so (construct_mnemonic for WalletRecovery, the      *)
(* generator for a pool word of Trial3Recovery).                           *)
(***************************************************************************)
\* the characters a raw word is made of at most
MaxWordLen == 3

\* a letter in both cases, a space, the two quote characters
WordChars == {"a", "A", " ", "'", "\""}

InitWords ==
    /\ GenIdle
    /\ gen = FreshGen
    /\ tried_permutations = {}
    /\ wallet = [mnemonic |-> <<>>, level |-> "none"]
    /\ decoy = <<>>
    /\ run_kind \in {"direct", "trial3"}
    /\ \E word \in SeqsUpTo(WordChars, MaxWordLen) :
          raw_config = RawConfig(<<>>, <<word>>, <<>>, None)
    /\ config = <<>>
    /\ DERIVATION_PATHS = <<>>
    /\ wallet_deriver = <<>>
    /\ valid_checksums = 0
    /\ files = "unopened"
    /\ mnemonic_rows = 0
    /\ derivation_rows = 0
    /\ last_mnemonic_row = <<>>
    /\ last_derivation_row = <<>>
    /\ pc = "start"
    /\ current = <<>>
    /\ step = <<>>
    /\ outcome = <<>>
    /\ custom_paths = <<>>
    /\ run = 0
    /\ clean = TRUE
    /\ pulled = 0
    /\ mnemonic_trail = <<>>
    /\ derivation_trail = <<>>
    /\ prev_mnemonic_trail = <<>>

\* the one-time pass: recovery.py:62-76, trial3.py:67-69
NormaliseWords ==
    /\ pc = "start"
    /\ config' = [raw_config EXCEPT !.words = Normalized(run_kind, raw_config.words)]
    /\ pc' = "constructed"
    /\ UNCHANGED <<genVars, gen, tried_permutations, wallet, decoy, run_kind,
                   raw_config, DERIVATION_PATHS, wallet_deriver,
                   valid_checksums, files, mnemonic_rows, derivation_rows,
                   last_mnemonic_row, last_derivation_row, current, step,
                   outcome, custom_paths, run, clean, pulled, trailVars>>

\* the same cleaning applied to the normalised word: validator.py:65-66
\* (str(w).lower().strip().strip('"\'')), trial3_generator.py:40
\* (candidate.lower().strip())
CleanAgain ==
    /\ pc = "constructed"
    /\ config' = [config EXCEPT !.words = Normalized(run_kind, config.words)]
    /\ pc' = "cleaned"
    /\ UNCHANGED <<genVars, gen, tried_permutations, wallet, decoy, run_kind,
                   raw_config, DERIVATION_PATHS, wallet_deriver,
                   valid_checksums, files, mnemonic_rows, derivation_rows,
                   last_mnemonic_row, last_derivation_row, current, step,
                   outcome, custom_paths, run, clean, pulled, trailVars>>

NextWords == NormaliseWords \/ CleanAgain

SpecWords == InitWords /\ [][NextWords]_vars

(***************************************************************************)
(* Properties of the generators (checked under SpecGen).                   *)
(***************************************************************************)
PairwiseDistinct(s) == \A i, j \in 1..Len(s) : i # j => s[i] # s[j]

\* the reference permutation set: every rearrangement of s
Orderings(s) ==
    LET n == Len(s)
        Bij == {p \in [1..n -> 1..n] : \A i, j \in 1..n : i # j => p[i] # p[j]}
    IN  {[i \in 1..n |-> s[p[i]]] : p \in Bij}

\* a list of K pairwise distinct words of the vocabulary
DistinctValidWords(words) ==
    /\ \A i \in 1..Len(words) : words[i] \in wordlist
    /\ PairwiseDistinct(words)

\* a scrambled list that meets the generator's input contract
WellFormedScrambled(words) ==
    /\ Len(words) = ScrambledCount
    /\ Count(words, BLANK_TOKEN) = 1

\* C3: direct mode covers the full space.  For K pairwise distinct words of
\* the vocabulary a fresh generate_permutations never yields a sequence twice
\* and yields only orderings of its input, and once it is exhausted it has
\* yielded exactly K! sequences: the orderings of its input, all of them.
C3_DirectCoversFullSpace ==
    (gen_kind = "direct" /\ DistinctValidWords(gen_words))
    => /\ PairwiseDistinct(yielded)
       /\ Range(yielded) \subseteq Orderings(gen_words)
       /\ gen.status = "stopped"
          => /\ Len(yielded) = Fact(Len(gen_words))
             /\ Range(yielded) = Orderings(gen_words)

C3_Witness ==
    /\ gen_kind = "direct"
    /\ DistinctValidWords(gen_words)
    /\ Len(gen_words) >= 3
    /\ gen.status = "stopped"
    /\ Len(yielded) = Fact(Len(gen_words))

\* C4: blank-substitution count.  For a scrambled list of the required
\* length with exactly one blank marker and a pool of size P, the exhausted
\* generate_trial3_word_sets has yielded exactly P x 9! sequences (9 being
\* ScrambledCount here), and never more on the way.
C4_BlankSubstitutionCount ==
    (gen_kind = "trial3" /\ WellFormedScrambled(gen_words))
    => /\ gen.status # "raised"
       /\ Len(yielded) <= Len(gen_pool) * Fact(ScrambledCount)
       /\ gen.status = "stopped"
          => Len(yielded) = Len(gen_pool) * Fact(ScrambledCount)

C4_Witness ==
    /\ gen_kind = "trial3"
    /\ WellFormedScrambled(gen_words)
    /\ Len(gen_pool) >= 2
    /\ gen.status = "stopped"
    /\ Len(yielded) = Len(gen_pool) * Fact(ScrambledCount)

\* the candidate of block j as the generator uses it (lower-cased, trimmed)
BlockCandidate(j) == Strip(Lower(gen_pool[j]))

\* the block of pool candidate j: positions (j-1) * 9! + 1 .. j * 9!
BlockOf(n) == ((n - 1) \div Fact(ScrambledCount)) + 1

BlockShape ==
    LET base == SelectSeq(gen_words, LAMBDA w : w # BLANK_TOKEN)
    IN  /\ \A n \in 1..Len(yielded) :
              /\ BlockOf(n) <= Len(gen_pool)
              /\ Len(yielded[n]) = ScrambledCount
              /\ Range(base) \subseteq Range(yielded[n])
              /\ yielded[n] \in Orderings(Append(base, BlockCandidate(BlockOf(n))))
        /\ \A j \in 1..Len(gen_pool) :
              Len(yielded) >= j * Fact(ScrambledCount)
              => {yielded[n] : n \in ((j - 1) * Fact(ScrambledCount) + 1)
                                     .. (j * Fact(ScrambledCount))}
                 = Orderings(Append(base, BlockCandidate(j)))

\* C5: blank-substitution stream shape.  The output is the concatenation, in
\* pool order, of one block per pool candidate, the block of candidate c being
\* every ordering of the known words plus c; every yielded sequence has the
\* length of the scrambled list, holds all known words, and never holds the
\* blank marker.
C5_StreamShape ==
    (gen_kind = "trial3" /\ WellFormedScrambled(gen_words))
    => /\ BlockShape
       /\ \A n \in 1..Len(yielded) : BLANK_TOKEN \notin Range(yielded[n])

\* the part of C5 the code keeps: the blocks, their order, the lengths and the
\* known words
C5_BlocksInPoolOrder ==
    (gen_kind = "trial3" /\ WellFormedScrambled(gen_words)) => BlockShape

\* C6: blank-substitution input contract.  When the scrambled list has the
\* wrong length, or a number of blank markers other than one, the first
\* next() raises, and nothing has been yielded.
C6_InputContract ==
    (/\ gen_kind = "trial3"
     /\ gen.status # "fresh"
     /\ ~WellFormedScrambled(gen_words))
    => /\ gen.status = "raised"
       /\ yielded = <<>>

C6_Witness ==
    /\ gen_kind = "trial3"
    /\ Len(gen_words) = ScrambledCount
    /\ Count(gen_words, BLANK_TOKEN) = 2
    /\ gen.status = "raised"
    /\ yielded = <<>>

(***************************************************************************)
(* Properties of a recovery process (checked under Spec).                  *)
(***************************************************************************)
\* the process has ended
Terminal == {"found", "exhausted", "rejected", "raised"}

\* the entry is the one construct_mnemonic documents, cut from the mnemonic
\* of the wallet that owns the target address at m/44'/60'/0'/0/0
KnownMnemonicEntry ==
    /\ run_kind = "direct"
    /\ Len(raw_config.words) = ConstructPermutedCount
    /\ Len(raw_config.fixed_words) = ConstructFixedCount
    /\ raw_config.derivation_path = None
    /\ wallet.mnemonic # <<>>
    /\ wallet.level = "address_index"

\* C1: direct-mode search finds the known mnemonic.  When the permutable
\* words are the scrambled first 10 words of a mnemonic M* and the fixed
\* words its last 14, and M* passes the checksum and owns the target address
\* at m/44'/60'/0'/0/0, recover_wallet ends by returning
\* (M*, "m/44'/60'/0'/0/0"), after at most K! candidates.
C1_DirectSearchFinds ==
    (KnownMnemonicEntry /\ pc \in Terminal)
    => /\ pc = "found"
       /\ outcome = Returned(<<wallet.mnemonic, DefaultPaths[1]>>)
       /\ gen.perm_id <= Fact(Len(raw_config.words))

\* C2: early exit.  In both loops the candidate whose address matches ends
\* the run at once: its mnemonic and path are what the run returns, the
\* generator is not advanced for it, and a run that has found its match pulls
\* no further candidate, validates no further checksum and derives no further
\* address (all that is left to happen is the release of the object).
C2_EarlyExit ==
    [][/\ pc = "found"
          => /\ pc' = "found"
             /\ gen' = gen
             /\ pulled' = pulled
             /\ step' = step
             /\ outcome' = outcome
             /\ mnemonic_trail' = mnemonic_trail
             /\ derivation_trail' = derivation_trail
       /\ step'.result # None
          => /\ pc' = "found"
             /\ outcome' = Returned(step'.result)
             /\ gen' = gen
             /\ current' = <<>>]_vars

\* a match was found while the generator still had candidates to hand out
C2_Witness ==
    /\ pc = "found"
    /\ outcome = Returned(step.result)
    /\ step.result # None
    /\ gen.status = "running"
    /\ gen.pool_index <= Len(config.replacement_pool)

\* a configuration with one fixed word less than required
OneFixedWordShort == Len(raw_config.fixed_words) = RequiredFixedCount - 1

\* C7: a wrong fixed-word count is a fatal pre-search error.  With 14 fixed
\* words where 15 are required the run ends with an exception, which an
\* ordinary not-found result (None) is not, before any candidate is
\* generated and with no audit row written.
C7_WrongFixedCountIsFatal ==
    OneFixedWordShort
    => /\ pc \notin {"scanning", "processing", "found", "exhausted"}
       /\ gen = FreshGen
       /\ mnemonic_rows = 0
       /\ derivation_rows = 0
       /\ pc \in Terminal => outcome = Raised

\* word is absent from the membership set (validator.py:35)
AbsentWord(word) == Strip(Lower(word)) \notin wordlist

\* the candidate last evaluated holds a word absent from the membership set
CandidateHasAbsentWord ==
    /\ step.words # <<>>
    /\ \E i \in 1..Len(step.words) : AbsentWord(step.words[i])

\* C8: cheapest check first.  For a candidate that holds a word absent from
\* the word list, neither seed generation (the checksum service) nor
\* derive_address (the derivation service) is called: both call counts of
\* that candidate are zero.
C8_CheapestCheckFirst ==
    CandidateHasAbsentWord
    => /\ ~step.wordlist_ok
       /\ step.seed_calls = 0
       /\ step.derive_calls = <<>>
       /\ step.tried = NoTry
       /\ step.result = None

\* a candidate of the full length with an absent word was evaluated and
\* rejected, and the loop went on
C8_Witness ==
    /\ CandidateHasAbsentWord
    /\ Len(Split(Join(step.words))) = MnemonicWordCount
    /\ step.seed_calls = 0
    /\ mnemonic_rows > 0
    /\ pc = "scanning"

\* C9 as stated: when a service raises while a candidate is evaluated, the
\* candidate is rejected and the search goes on to the next candidate.
C9_ErrorRejectsCandidate ==
    step.errors # {}
    => /\ step.result = None
       /\ pc \in {"scanning", "processing", "exhausted"}

\* C9, amended: per-candidate error containment.  No exception of the
\* word-list, checksum or derivation service ends the run.  An exception of
\* the word-list or checksum service rejects the candidate, and an exception
\* of the derivation service counts as no address for the path it was raised
\* for: the remaining paths are still tried, and the candidate is returned
\* when one of them matches, rejected otherwise.  After a rejection the search
\* goes on to the next candidate.
C9_ErrorContainment ==
    step.errors # {}
    => /\ pc # "raised"
       /\ outcome # Raised
       /\ step.errors \cap {"wordlist", "checksum"} # {} => step.result = None
       /\ step.result = None => pc \in {"scanning", "processing", "exhausted"}
       /\ step.result # None
          => /\ pc = "found"
             /\ \E k \in 1..Len(step.tried.calls) :
                   /\ step.result[2] = step.tried.calls[k]
                   /\ step.tried.addrs[k] # EmptyAddress

\* the derivation service raised for a candidate, and the loop has pulled the
\* next one
C9_Witness ==
    /\ step.errors = {"derivation"}
    /\ step.result = None
    /\ pc = "processing"
    /\ current # <<>>

\* a is the target address, case ignored
MatchesTarget(a) ==
    /\ a # EmptyAddress
    /\ LowerAddress(a) = LowerAddress(raw_config.target_address)

\* C10: path matching short-circuits on the first match.
\* try_all_derivation_paths derives for the paths of DERIVATION_PATHS in list
\* order; it returns the first path whose address is the target address, case
\* ignored, with that address, and has derived nothing for the paths after
\* it; it names no path only after all were tried and none matched.
C10_FirstMatchShortCircuits ==
    LET t == step.tried
        k == Len(t.calls)
    IN  k > 0
        => /\ t.calls = SubSeq(DERIVATION_PATHS, 1, k)
           /\ Len(t.addrs) = k
           /\ \A i \in 1..(k - 1) : ~MatchesTarget(t.addrs[i])
           /\ IF MatchesTarget(t.addrs[k])
              THEN /\ t.working_path = t.calls[k]
                   /\ t.derived_address = t.addrs[k]
              ELSE /\ t.working_path = None
                   /\ k = Len(DERIVATION_PATHS)

\* the target address was given with upper-case digits, the match came at a
\* path that is neither the first nor the last, after a path that yielded an
\* address of another key
C10_Witness ==
    /\ raw_config.target_address.cased
    /\ step.tried.working_path # None
    /\ Len(step.tried.calls) > 1
    /\ Len(step.tried.calls) < Len(DERIVATION_PATHS)
    /\ step.tried.addrs[1] # EmptyAddress

(***************************************************************************)
(* The derivation paths.                                                   *)
(***************************************************************************)
Last(s) == s[Len(s)]

Without(s, x) == SelectSeq(s, LAMBDA p : p # x)

IsPrefix(s, t) == Len(s) <= Len(t) /\ s = SubSeq(t, 1, Len(s))

\* the custom path the deriver in use was constructed with, None without one
CustomPathInUse ==
    IF custom_paths = <<>> THEN None ELSE Last(custom_paths)

\* the priority order a custom path asks for: itself, then the default paths
\* in their listed order
HintedOrder(custom_path) == <<custom_path>> \o Without(DefaultPaths, custom_path)

\* C11: whenever the run's deriver was constructed with a custom path, the
\* paths attempted for a checksum-valid mnemonic are that path first and then
\* the default paths in their listed order, also when the custom path is one
\* of the default paths.
C11_HintedPathFirst ==
    (/\ pc \in {"scanning", "found", "exhausted", "raised"}
     /\ CustomPathInUse # None
     /\ step.tried.calls # <<>>)
    => /\ step.tried.calls[1] = CustomPathInUse
       /\ IsPrefix(step.tried.calls, HintedOrder(CustomPathInUse))

\* C12: the path list a deriver uses is the default paths plus at most the
\* custom path it was constructed with itself: no custom path of an earlier
\* deriver is in the list or is the path tried first, and the default paths
\* are in the list as they were, whatever was constructed before.
C12_CustomPathScopedToRun ==
    custom_paths # <<>>
    => /\ Range(DERIVATION_PATHS)
             \subseteq Range(DefaultPaths) \cup ({CustomPathInUse} \ {None})
       /\ DERIVATION_PATHS[1] \in {CustomPathInUse, DefaultPaths[1]}
       /\ step.tried.calls # <<>>
             => step.tried.calls[1] \in {CustomPathInUse, DefaultPaths[1]}
       /\ SelectSeq(DERIVATION_PATHS, LAMBDA p : p \in Range(DefaultPaths))
             = DefaultPaths

\* the address of the last path whose derivation gave an address, the empty
\* address when no path did
LastDerived(addrs) ==
    LET derived == SelectSeq(addrs, LAMBDA a : a # EmptyAddress)
    IN  IF derived = <<>> THEN EmptyAddress ELSE Last(derived)

\* C13: when no path matches, try_all_derivation_paths returns no working
\* path together with the address of the last path whose derivation
\* succeeded, also when the paths after that one failed to derive.
C13_NoMatchDiagnostic ==
    (step.tried.calls # <<>> /\ step.tried.working_path = None)
    => step.tried.derived_address = LastDerived(step.tried.addrs)

(***************************************************************************)
(* The audit streams.                                                      *)
(***************************************************************************)
\* C14: a candidate that reached the checksum stage has exactly one row in
\* the mnemonic stream, made of its candidate identifier, its mnemonic and
\* its checksum flag, whether the flag is true or false; the row is written
\* before any derivation: when its write fails nothing was derived.
C14_ChecksumAuditComplete ==
    step.checked
    => /\ step.write_failed = {}
          => /\ Len(step.mnemonic_row) = 1
             /\ step.mnemonic_row[1]
                   = <<step.candidate, step.mnemonic, step.checksum_valid>>
       /\ "mnemonic" \in step.write_failed => step.derive_calls = <<>>

\* C15: for a checksum-valid candidate, every address derived along an
\* attempted path is in the derivation stream as a row of the candidate's
\* identifier and that address, also when no path matched the target.
C15_DerivationAuditComplete ==
    (step.checksum_valid /\ step.write_failed = {})
    => \A i \in 1..Len(step.tried.addrs) :
          step.tried.addrs[i] # EmptyAddress
          => <<step.candidate, step.tried.addrs[i]>> \in Range(step.derivation_row)

\* the candidates of a trail's rows, in the order of the rows
CandidatesOf(trail) == [i \in 1..Len(trail) |-> trail[i].candidate]

StrictlyIncreasing(s) == \A i \in 1..(Len(s) - 1) : s[i] < s[i + 1]

C17_StreamsReleased ==
    (pc \in Terminal /\ files # "unopened") => files = "closed"

\* C18: when a write to an audit stream fails while a candidate is being
\* processed, the processing ends with an exception, so that the run is
\* aborted and no later candidate is taken up.
C18_AuditWriteFailureFatal ==
    step.write_failed # {} => outcome = Raised

\* C19: a run that ends without a match after an earlier run over the same
\* configuration that ended without a match has written the same mnemonic
\* rows in the same order, whether it is a run of a new object in the same
\* process or a run on the same object.
C19_RunIdempotence ==
    (/\ run >= 2
     /\ clean
     /\ pc \in {"exhausted", "rejected", "searched"}
     /\ outcome = Returned(None))
    => mnemonic_trail = prev_mnemonic_trail

\* C20: no word sequence is yielded twice by a generator, also when its
\* input holds repeated words: a duplicated permutable word, a repeated pool
\* word, a pool word equal to a known scrambled word.
C20_NoDuplicateCandidates ==
    PairwiseDistinct(yielded)

(***************************************************************************)
(* The vocabulary of the configuration.                                    *)
(***************************************************************************)
\* a fixed word, or in blank-substitution mode a replacement-pool word, that
\* is not in the word list once it is normalised as its mode normalises it
UnsatisfiableVocabulary ==
    \/ \E i \in DOMAIN raw_config.fixed_words :
          Normalized(run_kind, raw_config.fixed_words)[i] \notin wordlist
    \/ /\ run_kind = "trial3"
       /\ \E j \in DOMAIN raw_config.replacement_pool :
             Normalized(run_kind, raw_config.replacement_pool)[j] \notin wordlist

\* C21: with a fixed word or a replacement-pool word outside the word list
\* the run is aborted before a candidate is generated and before an audit
\* row is written: no candidate is ever pulled, and the run does not end by
\* exhausting the candidates.
C21_UnsatisfiableVocabularyAborts ==
    UnsatisfiableVocabulary
    => /\ pc \notin {"processing", "found", "exhausted"}
       /\ pulled = 0
       /\ mnemonic_rows = 0
       /\ derivation_rows = 0

(***************************************************************************)
(* The statistics of a run.                                                *)
(***************************************************************************)
\* the checksum-valid candidates of the run, as its mnemonic rows tell
ValidInRun ==
    Cardinality({i \in DOMAIN mnemonic_trail : mnemonic_trail[i].row[3]})

\* C22: the totals WalletRecovery.recover_wallet reports when a run ends
\* exhausted are those of that run: len(tried_permutations) is the number of
\* candidates the run visited and valid_checksums the number of
\* checksum-valid candidates it found, whatever ran before.
C22_StatisticsPerRun ==
    (run_kind = "direct" /\ pc = "exhausted")
    => /\ Cardinality(tried_permutations) = pulled
       /\ valid_checksums = ValidInRun

(***************************************************************************)
(* The length of a candidate's mnemonic.                                   *)
(***************************************************************************)
\* the candidate last taken up got as far as the assembly of its mnemonic,
\* and its permuted words followed by the fixed words are not the 24 words
\* of a mnemonic
WrongWordCount ==
    /\ step.words # <<>>
    /\ run_kind = "trial3" \/ step.wordlist_ok
    /\ Len(Split(Join(step.words))) # MnemonicWordCount

\* C23: a candidate whose assembled mnemonic does not have exactly 24 words
\* ends the run with an error; it is not a rejected candidate after which
\* the search goes on.
C23_WrongLengthIsFatal ==
    WrongWordCount => outcome = Raised

(***************************************************************************)
(* The candidate identifiers (checked under SpecGen).                      *)
(***************************************************************************)
\* C24: the i-th sequence WalletRecovery.generate_permutations yields,
\* counted from 0, carries the identifier i, also when repeated sequences
\* were skipped before it.
C24_IdentifiersGapFree ==
    gen_kind = "direct"
    => \A i \in DOMAIN yielded_ids : yielded_ids[i] = i - 1

\* three sequences were yielded and a repeated one was skipped on the way
C24_Witness ==
    /\ gen_kind = "direct"
    /\ Len(yielded_ids) = 3
    /\ gen.cursor > Len(yielded_ids)

(***************************************************************************)
(* The normalisation (checked under SpecWords).                            *)
(***************************************************************************)
Quotes == {"'", "\""}

\* lowercase, no space and no quote character at either end
CleanWord(w) ==
    /\ Lower(w) = w
    /\ w # <<>> => /\ w[1] \notin {" "} \cup Quotes
                   /\ w[Len(w)] \notin {" "} \cup Quotes

\* C25: after the one-time normalisation every configured word is
\* lowercase, with no space and no quote character at either end, whatever
\* letters, spaces and quote characters the raw word is made of; normalising
\* it once more changes nothing.
C25_NormalizationPostcondition ==
    /\ pc = "constructed"
          => \A i \in DOMAIN config.words : CleanWord(config.words[i])
    /\ pc = "cleaned"
          => config.words = Normalized(run_kind, raw_config.words)

(***************************************************************************)
(* A path that fails to derive.                                            *)
(***************************************************************************)
\* C26: a path whose derivation fails is a non-match for that path only:
\* try_all_derivation_paths attempts the paths in their order without
\* leaving one out, gives up only after the last of them, and returns the
\* first path whose address is the target, whatever failed before it.
C26_DerivationFailureIsLocal ==
    step.tried.calls # <<>>
    => LET t == step.tried
       IN  /\ IsPrefix(t.calls, DERIVATION_PATHS)
           /\ \A i \in 1..(Len(t.addrs) - 1) : t.addrs[i] # wallet_deriver
           /\ t.working_path = None
                 => /\ t.calls = DERIVATION_PATHS
                    /\ Last(t.addrs) # wallet_deriver
           /\ t.working_path # None
                 => /\ t.working_path = Last(t.calls)
                    /\ Last(t.addrs) = wallet_deriver

\* a path in the loop gave no address and a later path was returned as the
\* match
C26_Witness ==
    /\ step.tried.working_path # None
    /\ \E i \in 2..(Len(step.tried.addrs) - 1) :
          step.tried.addrs[i] = EmptyAddress

(***************************************************************************)
(* Termination (checked under SpecFair).                                   *)
(***************************************************************************)
\* the candidates of the run's configuration, repeated sequences counted as
\* the generator counts them
CandidateSpace ==
    IF run_kind = "direct" THEN Fact(Len(config.words))
    ELSE Len(config.replacement_pool) * Fact(Len(config.words))

\* a run that ended exhausted: the generator is at its end, nothing it
\* handed out waits to be evaluated, and nothing matched.  Blank mode has
\* then handed out every tuple of every pool entry, each with its audit
\* row; direct mode has walked through every tuple (handing out those not
\* seen before) unless the generator's own word-list check met an exception
ExhaustedAfterAll ==
    pc = "exhausted"
    => /\ gen.status = "stopped"
       /\ current = <<>>
       /\ outcome = Returned(None)
       /\ step.result = None
       /\ pulled <= CandidateSpace
       /\ run_kind = "trial3"
             => /\ pulled = CandidateSpace
                /\ Len(mnemonic_trail) = pulled
                /\ derivation_trail = <<>>
       /\ run_kind = "direct"
             => \/ gen.cursor = CandidateSpace
                \/ gen.cursor = 0 /\ pulled = 0 /\ ~clean

\* a run that ended by an exception met a fatal error: the generator's
\* input contract, the constructor's checks, a mnemonic of the wrong length
\* or a failed audit write
RaisedIsFatal ==
    pc = "raised"
    => \/ gen.status = "raised"
       \/ config = None
       \/ WrongWordCount
       \/ step.write_failed # {}

\* an evaluation takes the candidate the generator handed out last, hands
\* nothing back, and its number is above every number evaluated before in
\* the run
EvaluatedOnce ==
    (step' # step /\ step' # NoStep)
    => /\ pc = "processing"
       /\ step'.candidate = pulled - 1
       /\ pulled' = pulled
       /\ current' = <<>>
       /\ step # NoStep => step.candidate < step'.candidate

\* the end of a run is left only by the next run of the process
TerminalStays ==
    pc \in {"found", "exhausted", "raised"} => pc' = pc \/ run' = run + 1

SameWords(a, b) ==
    /\ Len(a) = Len(b)
    /\ \A i \in 1..Len(a) : Count(a, a[i]) = Count(b, a[i])

\* the word sets the run's generator permutes: the permutable words, or the
\* known scrambled words with one entry of the pool
PermutedWordSets ==
    IF run_kind = "direct"
    THEN {[i \in 1..Len(config.words) |-> Lower(config.words[i])]}
    ELSE {Append(SelectSeq(config.words, LAMBDA w : w # BLANK_TOKEN),
                 Strip(Lower(config.replacement_pool[j]))) :
             j \in 1..Len(config.replacement_pool)}

=============================================================================
